---- MODULE Spec2Model ----
(***************************************************************************)
(* Model of the configuration resolution engine of shwrap:                 *)
(*   src/src/config/mod.rs    Entry, Entry::deep_merge, Config::merge,     *)
(*                            Config::get_command, Config::get_model,      *)
(*                            Config::merge_with_template                  *)
(*   src/src/config/loader.rs ConfigLoader::get_local_config_dir,          *)
(*                            ConfigLoader::load                           *)
(*   src/src/bwrap/mod.rs     WrappedCommandBuilder::build_args, exec      *)
(*   src/src/main.rs          wrap_command, show_command,                  *)
(*                            initialize_config                            *)
(* An Entry is a record with the eighteen fields of the Rust struct.  A    *)
(* Vec<String> is a sequence of strings, a HashMap<String, _> a function   *)
(* whose domain is its key set, an Option<String> the empty sequence       *)
(* (None) or a one-element sequence (Some).                                *)
(***************************************************************************)
EXTENDS Integers, Sequences, FiniteSets, TLC

VARIABLES
    pc,             \* control position of the operation the specification runs
    parent_entry,   \* Entry::deep_merge argument `parent`
    child_entry,    \* Entry::deep_merge argument `child`
    merged_entry,   \* the Entry returned by Entry::deep_merge
    parent,         \* Config::merge argument `parent` (its `entries` map)
    child,          \* Config::merge argument `child` (its `entries` map)
    visit_order,    \* the names a `for` loop has still to yield, or yielded: the
                    \* order of `for .. in child.entries`, the rest of
                    \* `for model_name in &cmd_config.extends`
    merged_entries, \* the `entries` map of the Config returned by Config::merge
    config,         \* the Config (its `entries` map) a command is resolved in
    command,        \* the name given to get_command / get_model
    cmd_config,     \* Option<Entry> returned by config.get_command(command)
    model_config,   \* Option<Entry> returned by config.get_model(command)
    merged_config,  \* Option<Entry>: the Entry returned by merge_with_template
    current_dir,    \* env::current_dir(): None when it fails, else Some(path), a
                    \* path being the sequence of its components below the root
    local_files,    \* the directories that contain a file named .shwrap.yaml
    dir,            \* the loop variable `dir` of get_local_config_dir
    local_config_dir, \* Option<PathBuf> returned by get_local_config_dir
    user_file,      \* state of ~/.config/shwrap/default.yaml
    local_file,     \* state of the .shwrap.yaml files
    loaded,         \* Result<Option<Config>> returned by ConfigLoader::load
    yaml_entry,     \* the YAML mapping an Entry is deserialized from
    parsed,         \* Result<Entry> of deserializing yaml_entry
    args,           \* Vec<String> returned by WrappedCommandBuilder::build_args
    executed,       \* the argument lists bwrap was run with, oldest first
    cwd_file,       \* state of the file .shwrap.yaml of the current directory
    init_result     \* Option<Result<()>> returned by initialize_config

mergeVars == <<parent_entry, child_entry, merged_entry,
               parent, child, visit_order, merged_entries>>

resolveVars == <<config, command, cmd_config, model_config, merged_config>>

loaderVars == <<current_dir, local_files, dir, local_config_dir,
                user_file, local_file, loaded>>

parseVars == <<yaml_entry, parsed>>

runVars == <<args, executed, cwd_file, init_result>>

vars == <<pc, mergeVars, resolveVars, loaderVars, parseVars, runVars>>

-----------------------------------------------------------------------------
(* Bounds of the explored inputs *)

\* longest array drawn for an array field of an input entry
MaxLen == 2

\* the strings that fill the array fields of the input entries
Items == {"a", "b", "c"}

-----------------------------------------------------------------------------
(* Data model: src/src/config/mod.rs *)

\* Option<String>
None == <<>>

Some(x) == <<x>>

\* enum EntryType, serialized lowercase
EntryType == {"command", "model"}

\* the ten Vec<String> isolation parameters of struct Entry
ArrayFields == {"share", "bind", "ro_bind", "dev_bind", "bind_try",
                "ro_bind_try", "dev_bind_try", "tmpfs", "cap", "unset_env"}

\* HashMap::new()
EmptyMap == [k \in {} |-> ""]

\* struct Entry with every serde default applied
DefaultEntry ==
    [entry_type      |-> "command",
     enabled         |-> TRUE,
     override_parent |-> FALSE,
     extends         |-> <<>>,
     share           |-> <<>>,
     bind            |-> <<>>,
     ro_bind         |-> <<>>,
     dev_bind        |-> <<>>,
     bind_try        |-> <<>>,
     ro_bind_try     |-> <<>>,
     dev_bind_try    |-> <<>>,
     tmpfs           |-> <<>>,
     chdir           |-> None,
     die_with_parent |-> FALSE,
     new_session     |-> FALSE,
     cap             |-> <<>>,
     env             |-> EmptyMap,
     unset_env       |-> <<>>]

-----------------------------------------------------------------------------
(* Entry::deep_merge and its helpers *)

\* the filter of deduplicate_vec: walks vec from index i with the HashSet `seen`
RECURSIVE dedup_filter(_, _, _)
dedup_filter(vec, i, seen) ==
    IF i > Len(vec) THEN <<>>
    ELSE IF vec[i] \in seen
         THEN dedup_filter(vec, i + 1, seen)
         ELSE <<vec[i]>> \o dedup_filter(vec, i + 1, seen \cup {vec[i]})

\* mutant of deduplicate_vec: nothing is removed
deduplicate_vec_keep_all(vec) == vec

\* mutant of deduplicate_vec: the last occurrence of an item is kept, not the first
RECURSIVE deduplicate_vec_keep_last(_)
deduplicate_vec_keep_last(vec) ==
    IF vec = <<>> THEN <<>>
    ELSE LET init == SubSeq(vec, 1, Len(vec) - 1)
             last == vec[Len(vec)]
         IN deduplicate_vec_keep_last(SelectSeq(init, LAMBDA x : x # last)) \o <<last>>

\* fn deduplicate_vec: seen.insert(item) is true for the first occurrence only
deduplicate_vec(vec) == dedup_filter(vec, 1, {})

\* mutant of merged_vec: the concatenation is deduplicated also for an empty child
merged_vec_no_empty_check(parent_vec, child_vec) ==
    deduplicate_vec(parent_vec \o child_vec)

\* mutant of merged_vec: the concatenation is not deduplicated
merged_vec_no_dedup(parent_vec, child_vec) ==
    IF child_vec = <<>> THEN parent_vec ELSE parent_vec \o child_vec

\* the block deep_merge repeats for each of the ten array fields:
\*   let mut merged = parent.f.clone(); merged.extend(child.f.clone());
\*   if child.f.is_empty() { parent.f } else { deduplicate_vec(merged) }
merged_vec(parent_vec, child_vec) ==
    LET merged == parent_vec \o child_vec
    IN IF child_vec = <<>> THEN parent_vec ELSE deduplicate_vec(merged)

\* mutant of merged_env: on a key collision the parent's value is kept
merged_env_parent_wins(parent_env, child_env) ==
    [k \in DOMAIN parent_env \cup DOMAIN child_env |->
        IF k \in DOMAIN parent_env THEN parent_env[k] ELSE child_env[k]]

\* let mut merged_env = parent.env.clone(); merged_env.extend(child.env);
merged_env(parent_env, child_env) ==
    [k \in DOMAIN parent_env \cup DOMAIN child_env |->
        IF k \in DOMAIN child_env THEN child_env[k] ELSE parent_env[k]]

\* mutant of merged_chdir: the parent's chdir wins when both have one
merged_chdir_parent_first(parent_chdir, child_chdir) ==
    IF parent_chdir # None THEN parent_chdir ELSE child_chdir

\* child.chdir.or(parent.chdir)
merged_chdir(parent_chdir, child_chdir) ==
    IF child_chdir # None THEN child_chdir ELSE parent_chdir

\* mutant of deep_merge: extends is inherited from the parent when the child's is
\* empty, and a child of the default type keeps the parent's type
deep_merge_inherit_scalars(p, c) ==
    [entry_type      |-> IF c.entry_type = "command" THEN p.entry_type ELSE c.entry_type,
     enabled         |-> c.enabled,
     override_parent |-> c.override_parent,
     extends         |-> IF c.extends = <<>> THEN p.extends ELSE c.extends,
     share           |-> merged_vec(p.share, c.share),
     bind            |-> merged_vec(p.bind, c.bind),
     ro_bind         |-> merged_vec(p.ro_bind, c.ro_bind),
     dev_bind        |-> merged_vec(p.dev_bind, c.dev_bind),
     bind_try        |-> merged_vec(p.bind_try, c.bind_try),
     ro_bind_try     |-> merged_vec(p.ro_bind_try, c.ro_bind_try),
     dev_bind_try    |-> merged_vec(p.dev_bind_try, c.dev_bind_try),
     tmpfs           |-> merged_vec(p.tmpfs, c.tmpfs),
     chdir           |-> merged_chdir(p.chdir, c.chdir),
     die_with_parent |-> c.die_with_parent,
     new_session     |-> c.new_session,
     cap             |-> merged_vec(p.cap, c.cap),
     env             |-> merged_env(p.env, c.env),
     unset_env       |-> merged_vec(p.unset_env, c.unset_env)]

\* pub fn Entry::deep_merge(parent, child)
deep_merge(p, c) ==
    [entry_type      |-> c.entry_type,
     enabled         |-> c.enabled,
     override_parent |-> c.override_parent,
     extends         |-> c.extends,
     share           |-> merged_vec(p.share, c.share),
     bind            |-> merged_vec(p.bind, c.bind),
     ro_bind         |-> merged_vec(p.ro_bind, c.ro_bind),
     dev_bind        |-> merged_vec(p.dev_bind, c.dev_bind),
     bind_try        |-> merged_vec(p.bind_try, c.bind_try),
     ro_bind_try     |-> merged_vec(p.ro_bind_try, c.ro_bind_try),
     dev_bind_try    |-> merged_vec(p.dev_bind_try, c.dev_bind_try),
     tmpfs           |-> merged_vec(p.tmpfs, c.tmpfs),
     chdir           |-> merged_chdir(p.chdir, c.chdir),
     die_with_parent |-> c.die_with_parent,
     new_session     |-> c.new_session,
     cap             |-> merged_vec(p.cap, c.cap),
     env             |-> merged_env(p.env, c.env),
     unset_env       |-> merged_vec(p.unset_env, c.unset_env)]

-----------------------------------------------------------------------------
(* Config::merge *)

\* HashMap::insert(name, entry)
insert(entries, name, entry) ==
    [n \in DOMAIN entries \cup {name} |-> IF n = name THEN entry ELSE entries[n]]

\* mutant of merge_entry: the override flag is looked at before the enabled flag
merge_entry_override_first(entries, name, entry) ==
    IF name \in DOMAIN entries
    THEN IF entry.override_parent
         THEN insert(entries, name, entry)
         ELSE IF ~entry.enabled
              THEN entries
              ELSE insert(entries, name, deep_merge(entries[name], entry))
    ELSE insert(entries, name, entry)

\* mutant of merge_entry: the override flag is ignored, a common name is deep-merged
merge_entry_always_deep(entries, name, entry) ==
    IF ~entry.enabled /\ name \in DOMAIN entries
    THEN entries
    ELSE IF name \in DOMAIN entries
         THEN insert(entries, name, deep_merge(entries[name], entry))
         ELSE insert(entries, name, entry)

\* mutant of merge_entry: a disabled child entry is skipped also when the parent
\* has no entry of that name
merge_entry_skip_disabled(entries, name, entry) ==
    IF ~entry.enabled
    THEN entries
    ELSE IF name \in DOMAIN entries
         THEN IF entry.override_parent
              THEN insert(entries, name, entry)
              ELSE insert(entries, name, deep_merge(entries[name], entry))
         ELSE insert(entries, name, entry)

\* mutant of merge_entry: a disabled child entry disables the parent's entry
merge_entry_disabled_child_disables(entries, name, entry) ==
    IF ~entry.enabled /\ name \in DOMAIN entries
    THEN insert(entries, name, [entries[name] EXCEPT !.enabled = FALSE])
    ELSE IF name \in DOMAIN entries
         THEN IF entry.override_parent
              THEN insert(entries, name, entry)
              ELSE insert(entries, name, deep_merge(entries[name], entry))
         ELSE insert(entries, name, entry)

\* the body of the loop `for (name, child_entry) in child.entries` of Config::merge
merge_entry(entries, name, entry) ==
    IF ~entry.enabled /\ name \in DOMAIN entries
    THEN entries                                        \* continue
    ELSE IF name \in DOMAIN entries
         THEN IF entry.override_parent
              THEN insert(entries, name, entry)
              ELSE insert(entries, name, deep_merge(entries[name], entry))
         ELSE insert(entries, name, entry)

\* mutant of merge_loop: a disabled child entry ends the loop (break for continue)
RECURSIVE merge_loop_break(_, _, _)
merge_loop_break(entries, child_entries, order) ==
    IF order = <<>> THEN entries
    ELSE LET name == Head(order)
         IN IF ~child_entries[name].enabled /\ name \in DOMAIN entries
            THEN entries
            ELSE merge_loop_break(merge_entry(entries, name, child_entries[name]),
                                  child_entries, Tail(order))

\* the loop of Config::merge over child.entries, visited in `order`
RECURSIVE merge_loop(_, _, _)
merge_loop(entries, child_entries, order) ==
    IF order = <<>> THEN entries
    ELSE merge_loop(merge_entry(entries, Head(order), child_entries[Head(order)]),
                    child_entries, Tail(order))

\* pub fn Config::merge(parent, child); a HashMap yields its entries in any order
merge(parent_entries, child_entries, order) ==
    LET merged == parent_entries                        \* parent.entries.clone()
    IN merge_loop(merged, child_entries, order)

\* the orders in which a HashMap with key set S can be iterated
Orders(S) ==
    {o \in [1..Cardinality(S) -> S] : \A i, j \in 1..Cardinality(S) : o[i] = o[j] => i = j}

-----------------------------------------------------------------------------
(* Inputs *)

\* every Vec<String> over Items of at most MaxLen elements, duplicates included
Arrays == UNION {[1..k -> Items] : k \in 0..MaxLen}

\* values of `extends`
ExtendsInputs == {<<>>, <<"base">>, <<"base", "net">>}

\* values of `chdir`
ChdirInputs == {None, Some("/tmp"), Some("/home")}

\* values of `env`: every map from a subset of two keys to two values
EnvInputs == UNION {[K -> {"b", "n"}] : K \in SUBSET {"K", "L"}}

\* entries with one array field set and every other field at its default
ArrayInputs == {[DefaultEntry EXCEPT ![f] = a] : f \in ArrayFields, a \in Arrays}

\* entries that differ from the default in the fields deep_merge copies
ScalarInputs ==
    {[DefaultEntry EXCEPT !.entry_type = t, !.enabled = en, !.override_parent = ov,
                          !.extends = ex, !.die_with_parent = d, !.new_session = ns] :
        t \in EntryType, en \in BOOLEAN, ov \in BOOLEAN,
        ex \in ExtendsInputs, d \in BOOLEAN, ns \in BOOLEAN}

\* entries that differ from the default in chdir and env
ChdirEnvInputs ==
    {[DefaultEntry EXCEPT !.chdir = ch, !.env = e] : ch \in ChdirInputs, e \in EnvInputs}

\* the entries Entry::deep_merge is applied to
EntryInputs == ArrayInputs \cup ScalarInputs \cup ChdirEnvInputs

\* a Config with no entry
EmptyConfig == [n \in {} |-> DefaultEntry]

\* the variables of command resolution, unused
ResolveIdle ==
    /\ config = EmptyConfig
    /\ command = ""
    /\ cmd_config = None
    /\ model_config = None
    /\ merged_config = None

\* a file that does not exist
AbsentFile == [state |-> "absent", content |-> EmptyConfig]

\* the variables of the loader, unused
LoaderIdle ==
    /\ current_dir = None
    /\ local_files = {}
    /\ dir = <<>>
    /\ local_config_dir = None
    /\ user_file = AbsentFile
    /\ local_file = AbsentFile
    /\ loaded = None

\* a key that the YAML mapping does not have
Absent == [kind |-> "absent", value |-> <<>>]

\* the variables of the deserializer, unused
ParseIdle ==
    /\ yaml_entry = [type |-> Absent, enabled |-> Absent, extends |-> Absent]
    /\ parsed = None

\* the variables of the command line actions, unused
RunIdle ==
    /\ args = <<>>
    /\ executed = <<>>
    /\ cwd_file = AbsentFile
    /\ init_result = None

-----------------------------------------------------------------------------
(* Entry::deep_merge applied to every pair of input entries *)

InitDeepMerge ==
    /\ pc = "start"
    /\ parent_entry \in EntryInputs
    /\ child_entry \in EntryInputs
    /\ merged_entry = DefaultEntry
    /\ parent = EmptyConfig
    /\ child = EmptyConfig
    /\ visit_order = <<>>
    /\ merged_entries = EmptyConfig
    /\ ResolveIdle
    /\ LoaderIdle
    /\ ParseIdle
    /\ RunIdle

DeepMerge ==
    /\ pc = "start"
    /\ merged_entry' = deep_merge(parent_entry, child_entry)
    /\ pc' = "deep_merged"
    /\ UNCHANGED <<parent_entry, child_entry, parent, child, visit_order, merged_entries>>
    /\ UNCHANGED <<resolveVars, loaderVars, parseVars, runVars>>

NextDeepMerge == DeepMerge

SpecDeepMerge == InitDeepMerge /\ [][NextDeepMerge]_vars

-----------------------------------------------------------------------------
(* Claims about Entry::deep_merge, checked under SpecDeepMerge *)

\* index of the first occurrence of x in s
FirstIndex(s, x) == CHOOSE i \in 1..Len(s) : s[i] = x /\ \A j \in 1..(i - 1) : s[j] # x

\* r holds every item of s once, ordered by first occurrence in s
IsFirstOccurrenceOrder(r, s) ==
    /\ \A i, j \in 1..Len(r) : r[i] = r[j] => i = j
    /\ {r[i] : i \in 1..Len(r)} = {s[i] : i \in 1..Len(s)}
    /\ \A i, j \in 1..Len(r) : i < j => FirstIndex(s, r[i]) < FirstIndex(s, r[j])

\* C3: for each array field whose child array is non-empty, the merged array is the
\* parent's array followed by the child's with every exact duplicate removed, only
\* the first occurrence kept
C3_DedupFirstOccurrence ==
    pc = "deep_merged" =>
        \A f \in ArrayFields :
            child_entry[f] # <<>> =>
                IsFirstOccurrenceOrder(merged_entry[f], parent_entry[f] \o child_entry[f])

\* C3 witness: parent [a,b] and child [b,c] merged to [a,b,c]
C3_Witness ==
    /\ pc = "deep_merged"
    /\ parent_entry.share = <<"a", "b">>
    /\ child_entry.share = <<"b", "c">>
    /\ merged_entry.share = <<"a", "b", "c">>

\* C4: for each array field whose child array is empty, the merged array is the
\* parent's array unchanged: same elements, order and multiplicity
C4_EmptyChildKeepsParent ==
    pc = "deep_merged" =>
        \A f \in ArrayFields :
            child_entry[f] = <<>> => merged_entry[f] = parent_entry[f]

\* C4 witness: a parent array with a repeated item survives an empty child array
C4_Witness ==
    /\ pc = "deep_merged"
    /\ parent_entry.cap = <<"a", "a">>
    /\ child_entry.cap = <<>>
    /\ merged_entry.cap = <<"a", "a">>

\* C5: the merged env has the keys of both maps; a key of the child maps to the
\* child's value, a key of the parent alone keeps the parent's value
C5_EnvOverlay ==
    pc = "deep_merged" =>
        /\ DOMAIN merged_entry.env = DOMAIN parent_entry.env \cup DOMAIN child_entry.env
        /\ \A k \in DOMAIN child_entry.env : merged_entry.env[k] = child_entry.env[k]
        /\ \A k \in DOMAIN parent_entry.env \ DOMAIN child_entry.env :
               merged_entry.env[k] = parent_entry.env[k]

\* C5 witness: a colliding key takes the child's value, a parent-only key is kept
C5_Witness ==
    /\ pc = "deep_merged"
    /\ DOMAIN parent_entry.env = {"K", "L"}
    /\ DOMAIN child_entry.env = {"K"}
    /\ parent_entry.env["K"] # child_entry.env["K"]
    /\ merged_entry.env["K"] = child_entry.env["K"]
    /\ merged_entry.env["L"] = parent_entry.env["L"]

\* C6: entry_type, enabled, override_parent, extends, die_with_parent and
\* new_session of the merged entry are the child's, also when the child holds the
\* default
C6_ScalarsFromChild ==
    pc = "deep_merged" =>
        /\ merged_entry.entry_type = child_entry.entry_type
        /\ merged_entry.enabled = child_entry.enabled
        /\ merged_entry.override_parent = child_entry.override_parent
        /\ merged_entry.extends = child_entry.extends
        /\ merged_entry.die_with_parent = child_entry.die_with_parent
        /\ merged_entry.new_session = child_entry.new_session

\* C6 witness: a default child (Command, no extends) merged onto a Model that
\* extends a template yields a Command with no extends
C6_Witness ==
    /\ pc = "deep_merged"
    /\ parent_entry.entry_type = "model"
    /\ parent_entry.extends = <<"base">>
    /\ parent_entry.die_with_parent
    /\ child_entry = DefaultEntry
    /\ merged_entry.entry_type = "command"
    /\ merged_entry.extends = <<>>
    /\ ~merged_entry.die_with_parent

\* C7: the merged chdir is the child's when the child has one, else the parent's
C7_ChdirChildElseParent ==
    pc = "deep_merged" =>
        merged_entry.chdir =
            IF child_entry.chdir # None THEN child_entry.chdir ELSE parent_entry.chdir

\* C7 witness: both have a chdir and the child's is taken
C7_Witness ==
    /\ pc = "deep_merged"
    /\ parent_entry.chdir = Some("/tmp")
    /\ child_entry.chdir = Some("/home")
    /\ merged_entry.chdir = Some("/home")

-----------------------------------------------------------------------------
(* Config::merge applied to pairs of input configurations *)

\* contents of the entries named "node" in the input configurations
NodeProfiles ==
    {DefaultEntry,
     [DefaultEntry EXCEPT !.share = <<"user", "pid">>, !.bind = <<"/usr:/usr">>,
                          !.env = ("K" :> "b"), !.chdir = Some("/tmp"),
                          !.extends = <<"base">>],
     [DefaultEntry EXCEPT !.share = <<"network">>, !.cap = <<"CAP_NET_ADMIN">>,
                          !.env = ("K" :> "n") @@ ("L" :> "n"), !.chdir = Some("/home"),
                          !.die_with_parent = TRUE],
     [DefaultEntry EXCEPT !.share = <<"user", "user">>]}

\* the entries named "node": each profile with each enabled and override value
NodeInputs ==
    {[e EXCEPT !.enabled = en, !.override_parent = ov] :
        e \in NodeProfiles, en \in BOOLEAN, ov \in BOOLEAN}

\* the entries named "npm": a Command or a Model with each enabled and override value
NpmInputs ==
    {[DefaultEntry EXCEPT !.entry_type = t, !.enabled = en, !.override_parent = ov,
                          !.tmpfs = IF t = "model" THEN <<"/tmp">> ELSE <<>>] :
        t \in EntryType, en \in BOOLEAN, ov \in BOOLEAN}

\* an entry that may be absent from a configuration
Optional(S) == {None} \cup {Some(e) : e \in S}

\* the Config holding the entries that are present
ConfigOf(node, npm) ==
    (IF node = None THEN EmptyConfig ELSE "node" :> node[1]) @@
    (IF npm = None THEN EmptyConfig ELSE "npm" :> npm[1])

\* the parsed configurations Config::merge is applied to
ConfigInputs == {ConfigOf(node, npm) : node \in Optional(NodeInputs), npm \in Optional(NpmInputs)}

InitMerge ==
    /\ pc = "start"
    /\ parent_entry = DefaultEntry
    /\ child_entry = DefaultEntry
    /\ merged_entry = DefaultEntry
    /\ \/ /\ parent \in ConfigInputs
          /\ child \in ConfigInputs
       \/ \E e \in EntryInputs :
          /\ parent = ("node" :> e)
          /\ child = ("node" :> e)
    /\ visit_order = <<>>
    /\ merged_entries = EmptyConfig
    /\ ResolveIdle
    /\ LoaderIdle
    /\ ParseIdle
    /\ RunIdle

Merge ==
    /\ pc = "start"
    /\ \E order \in Orders(DOMAIN child) :
          /\ visit_order' = order
          /\ merged_entries' = merge(parent, child, order)
    /\ pc' = "merged"
    /\ UNCHANGED <<parent_entry, child_entry, merged_entry, parent, child>>
    /\ UNCHANGED <<resolveVars, loaderVars, parseVars, runVars>>

NextMerge == Merge

SpecMerge == InitMerge /\ [][NextMerge]_vars

-----------------------------------------------------------------------------
(* Claims about Config::merge, checked under SpecMerge *)

\* the names both configurations define
CommonNames == DOMAIN parent \cap DOMAIN child

\* C1: for a name in both configurations whose override entry is disabled, the
\* resulting entry is the base entry in every field, whatever the override entry's
\* override flag
C1_DisabledOverrideKeepsBase ==
    pc = "merged" =>
        \A n \in CommonNames :
            ~child[n].enabled => merged_entries[n] = parent[n]

\* C1 witness: a disabled override entry with override=true and other content left
\* an enabled base entry in place
C1_Witness ==
    /\ pc = "merged"
    /\ "node" \in CommonNames
    /\ ~child["node"].enabled
    /\ child["node"].override_parent
    /\ child["node"].share = <<"network">>
    /\ parent["node"].enabled
    /\ parent["node"].share = <<"user", "pid">>
    /\ merged_entries["node"] = parent["node"]

\* C2: for a name in both configurations whose override entry is enabled with
\* override=true, the resulting entry is the override entry: nothing of the base
\* entry is inherited
C2_OverrideReplacesBase ==
    pc = "merged" =>
        \A n \in CommonNames :
            (child[n].enabled /\ child[n].override_parent) =>
                merged_entries[n] = child[n]

\* C2 witness: the base entry's bind, env key and chdir are gone after an
\* override=true entry that sets none of them
C2_Witness ==
    /\ pc = "merged"
    /\ "node" \in CommonNames
    /\ child["node"].enabled
    /\ child["node"].override_parent
    /\ parent["node"].bind = <<"/usr:/usr">>
    /\ parent["node"].chdir = Some("/tmp")
    /\ child["node"].share = <<"user", "user">>
    /\ merged_entries["node"].bind = <<>>
    /\ merged_entries["node"].chdir = None
    /\ merged_entries["node"].env = EmptyMap
    /\ merged_entries["node"].share = <<"user", "user">>

\* C8: the names of the result are the names of base and override together, and an
\* entry whose name is in one of the two only is in the result unchanged
C8_DistinctEntriesCarried ==
    pc = "merged" =>
        /\ DOMAIN merged_entries = DOMAIN parent \cup DOMAIN child
        /\ \A n \in DOMAIN parent \ DOMAIN child : merged_entries[n] = parent[n]
        /\ \A n \in DOMAIN child \ DOMAIN parent : merged_entries[n] = child[n]

\* C8 witness: a disabled override=true entry of the override alone and an entry of
\* the base alone are both in the result
C8_Witness ==
    /\ pc = "merged"
    /\ DOMAIN parent = {"npm"}
    /\ DOMAIN child = {"node"}
    /\ ~child["node"].enabled
    /\ child["node"].override_parent
    /\ merged_entries["node"] = child["node"]
    /\ merged_entries["npm"] = parent["npm"]

\* every entry of the configuration is enabled with override=false
AllEnabledNoOverride(cfg) ==
    \A n \in DOMAIN cfg : cfg[n].enabled /\ ~cfg[n].override_parent

\* no array field of any entry of the configuration holds an item twice
NoDuplicateItems(cfg) ==
    \A n \in DOMAIN cfg : \A f \in ArrayFields :
        \A i, j \in 1..Len(cfg[n][f]) : cfg[n][f][i] = cfg[n][f][j] => i = j

\* C9 as stated: merging a configuration whose entries are all enabled with
\* override=false with itself yields that configuration
C9_SelfMergeIsIdentity ==
    (pc = "merged" /\ child = parent /\ AllEnabledNoOverride(parent)) =>
        merged_entries = parent

\* C9 amended: merging a configuration whose entries are all enabled with
\* override=false and whose arrays hold no item twice with itself yields that
\* configuration
C9_SelfMergeIsIdentityNoDuplicates ==
    (pc = "merged" /\ child = parent /\ AllEnabledNoOverride(parent)
                   /\ NoDuplicateItems(parent)) =>
        merged_entries = parent

\* C9 witness: a configuration with a two-item array, an env and a chdir merged
\* with itself
C9_Witness ==
    /\ pc = "merged"
    /\ child = parent
    /\ DOMAIN parent = {"node", "npm"}
    /\ AllEnabledNoOverride(parent)
    /\ NoDuplicateItems(parent)
    /\ parent["node"].share = <<"user", "pid">>
    /\ parent["node"].chdir = Some("/tmp")
    /\ merged_entries = parent

\* the part of a configuration that defines the names in S
Restrict(cfg, S) == [n \in DOMAIN cfg \cap S |-> cfg[n]]

\* C10: the result is the same for every order in which the override's entries are
\* visited, and the resulting entry of a name is decided by the base and override
\* entries of that name alone
C10_MergeOrderIndependent ==
    pc = "merged" =>
        /\ \A order \in Orders(DOMAIN child) :
               merge(parent, child, order) = merged_entries
        /\ \A n \in DOMAIN merged_entries :
               \A order \in Orders(DOMAIN child \cap {n}) :
                   merge(Restrict(parent, {n}), Restrict(child, {n}), order)[n]
                       = merged_entries[n]

\* C10 witness: two override entries were visited in the order npm, node, the
\* node entry being skipped as disabled and the npm entry deep-merged
C10_Witness ==
    /\ pc = "merged"
    /\ visit_order = <<"npm", "node">>
    /\ CommonNames = {"node", "npm"}
    /\ ~child["node"].enabled
    /\ child["npm"].enabled
    /\ ~child["npm"].override_parent
    /\ parent["npm"] # child["npm"]
    /\ merged_entries["node"] = parent["node"]
    /\ merged_entries["npm"] = deep_merge(parent["npm"], child["npm"])

-----------------------------------------------------------------------------
(* Config::get_command, Config::get_model, Config::merge_with_template *)

\* mutant of get_command: the entry of that name is returned whatever its type
get_command_any_type(cfg, entry_name) ==
    IF entry_name \in DOMAIN cfg THEN Some(cfg[entry_name]) ELSE None

\* mutant of get_command: a disabled command is not returned
get_command_enabled_only(cfg, entry_name) ==
    IF /\ entry_name \in DOMAIN cfg
       /\ cfg[entry_name].entry_type = "command"
       /\ cfg[entry_name].enabled
    THEN Some(cfg[entry_name]) ELSE None

\* pub fn Config::get_command: entries.get(name).filter(entry_type == Command)
get_command(cfg, entry_name) ==
    IF entry_name \in DOMAIN cfg /\ cfg[entry_name].entry_type = "command"
    THEN Some(cfg[entry_name]) ELSE None

\* mutant of get_model: a disabled Model is not returned
get_model_enabled_only(cfg, entry_name) ==
    IF /\ entry_name \in DOMAIN cfg
       /\ cfg[entry_name].entry_type = "model"
       /\ cfg[entry_name].enabled
    THEN Some(cfg[entry_name]) ELSE None

\* fn Config::get_model: entries.get(name).filter(entry_type == Model)
get_model(cfg, entry_name) ==
    IF entry_name \in DOMAIN cfg /\ cfg[entry_name].entry_type = "model"
    THEN Some(cfg[entry_name]) ELSE None

\* mutant of extend_map: a key the map already has keeps its value
extend_map_keep_existing(map, other) ==
    [k \in DOMAIN map \cup DOMAIN other |-> IF k \in DOMAIN map THEN map[k] ELSE other[k]]

\* HashMap::extend as used on result.env: a key of `other` replaces the map's
extend_map(map, other) ==
    [k \in DOMAIN map \cup DOMAIN other |-> IF k \in DOMAIN other THEN other[k] ELSE map[k]]

\* mutant of initial_result: extends is not cleared
initial_result_keeps_extends(cmd) ==
    [DefaultEntry EXCEPT !.entry_type = cmd.entry_type,
                         !.enabled = cmd.enabled,
                         !.override_parent = cmd.override_parent,
                         !.extends = cmd.extends,
                         !.chdir = cmd.chdir,
                         !.die_with_parent = cmd.die_with_parent,
                         !.new_session = cmd.new_session]

\* `let mut result = Entry { .. }` of merge_with_template: the command's scalar
\* fields, extends cleared, every array and env empty
initial_result(cmd) ==
    [entry_type      |-> cmd.entry_type,
     enabled         |-> cmd.enabled,
     override_parent |-> cmd.override_parent,
     extends         |-> <<>>,
     share           |-> <<>>,
     bind            |-> <<>>,
     ro_bind         |-> <<>>,
     dev_bind        |-> <<>>,
     bind_try        |-> <<>>,
     ro_bind_try     |-> <<>>,
     dev_bind_try    |-> <<>>,
     tmpfs           |-> <<>>,
     chdir           |-> cmd.chdir,
     die_with_parent |-> cmd.die_with_parent,
     new_session     |-> cmd.new_session,
     cap             |-> <<>>,
     env             |-> EmptyMap,
     unset_env       |-> <<>>]

\* mutant of extend_with_template: a result without chdir takes the template's
extend_with_template_inherit_chdir(result, template) ==
    [result EXCEPT !.share        = @ \o template.share,
                   !.bind         = @ \o template.bind,
                   !.ro_bind      = @ \o template.ro_bind,
                   !.dev_bind     = @ \o template.dev_bind,
                   !.bind_try     = @ \o template.bind_try,
                   !.ro_bind_try  = @ \o template.ro_bind_try,
                   !.dev_bind_try = @ \o template.dev_bind_try,
                   !.tmpfs        = @ \o template.tmpfs,
                   !.unset_env    = @ \o template.unset_env,
                   !.cap          = @ \o template.cap,
                   !.chdir        = IF @ = None THEN template.chdir ELSE @,
                   !.env          = extend_map(@, template.env)]

\* the body of `if let Some(template) = self.get_model(model_name)`
extend_with_template(result, template) ==
    [result EXCEPT !.share        = @ \o template.share,
                   !.bind         = @ \o template.bind,
                   !.ro_bind      = @ \o template.ro_bind,
                   !.dev_bind     = @ \o template.dev_bind,
                   !.bind_try     = @ \o template.bind_try,
                   !.ro_bind_try  = @ \o template.ro_bind_try,
                   !.dev_bind_try = @ \o template.dev_bind_try,
                   !.tmpfs        = @ \o template.tmpfs,
                   !.unset_env    = @ \o template.unset_env,
                   !.cap          = @ \o template.cap,
                   !.env          = extend_map(@, template.env)]

\* mutant of template_step: the Models that a template names in its own extends
\* are applied after it
template_step_follows_extends(cfg, result, model_name) ==
    LET template == get_model(cfg, model_name)
        RECURSIVE inherited(_, _)
        inherited(r, names) ==
            IF names = <<>> THEN r
            ELSE LET t == get_model(cfg, Head(names))
                 IN inherited(IF t # None THEN extend_with_template(r, t[1]) ELSE r,
                              Tail(names))
    IN IF template # None
       THEN inherited(extend_with_template(result, template[1]), template[1].extends)
       ELSE result

\* one iteration of `for model_name in &cmd_config.extends`
template_step(cfg, result, model_name) ==
    LET template == get_model(cfg, model_name)
    IN IF template # None
       THEN extend_with_template(result, template[1])
       ELSE result                                      \* skip it (no error)

\* mutant of apply_templates: a name that is no Model ends the loop
RECURSIVE apply_templates_stop_at_missing(_, _, _)
apply_templates_stop_at_missing(cfg, result, extends) ==
    IF extends = <<>> THEN result
    ELSE IF get_model(cfg, Head(extends)) = None
         THEN result
         ELSE apply_templates_stop_at_missing(
                  cfg, template_step(cfg, result, Head(extends)), Tail(extends))

\* the loop `for model_name in &cmd_config.extends`
RECURSIVE apply_templates(_, _, _)
apply_templates(cfg, result, extends) ==
    IF extends = <<>> THEN result
    ELSE apply_templates(cfg, template_step(cfg, result, Head(extends)), Tail(extends))

\* mutant of apply_command: the arrays are deduplicated as deep_merge does
apply_command_dedup(result, cmd) ==
    [result EXCEPT !.share        = deduplicate_vec(@ \o cmd.share),
                   !.bind         = deduplicate_vec(@ \o cmd.bind),
                   !.ro_bind      = deduplicate_vec(@ \o cmd.ro_bind),
                   !.dev_bind     = deduplicate_vec(@ \o cmd.dev_bind),
                   !.bind_try     = deduplicate_vec(@ \o cmd.bind_try),
                   !.ro_bind_try  = deduplicate_vec(@ \o cmd.ro_bind_try),
                   !.dev_bind_try = deduplicate_vec(@ \o cmd.dev_bind_try),
                   !.tmpfs        = deduplicate_vec(@ \o cmd.tmpfs),
                   !.unset_env    = deduplicate_vec(@ \o cmd.unset_env),
                   !.cap          = deduplicate_vec(@ \o cmd.cap),
                   !.env          = extend_map(@, cmd.env)]

\* "Finally, apply command's own values": the saved cmd_* values are appended
apply_command(result, cmd) ==
    [result EXCEPT !.share        = @ \o cmd.share,
                   !.bind         = @ \o cmd.bind,
                   !.ro_bind      = @ \o cmd.ro_bind,
                   !.dev_bind     = @ \o cmd.dev_bind,
                   !.bind_try     = @ \o cmd.bind_try,
                   !.ro_bind_try  = @ \o cmd.ro_bind_try,
                   !.dev_bind_try = @ \o cmd.dev_bind_try,
                   !.tmpfs        = @ \o cmd.tmpfs,
                   !.unset_env    = @ \o cmd.unset_env,
                   !.cap          = @ \o cmd.cap,
                   !.env          = extend_map(@, cmd.env)]

\* pub fn Config::merge_with_template(&self, cmd_config)
merge_with_template(cfg, cmd) ==
    apply_command(apply_templates(cfg, initial_result(cmd), cmd.extends), cmd)

\* pub fn Config::merge_with_base: the deprecated name of merge_with_template
merge_with_base(cfg, cmd) == merge_with_template(cfg, cmd)

-----------------------------------------------------------------------------
(* Resolution of a command: get_command, then merge_with_template *)

\* longest extends list of the command that is resolved
MaxExtends == 2

\* values of the command's extends: lists over two templates and an unknown name
ExtendsLists == UNION {[1..k -> {"base", "net", "missing"}] : k \in 0..MaxExtends}

\* what the configuration holds under the name "base"
BaseKinds == {"absent", "model", "disabled_model", "command"}

\* what the configuration holds under the name "net"
NetKinds == {"absent", "model"}

\* the entry named "base": a template that itself extends "net"
BaseEntry(kind, f, array, env) ==
    [DefaultEntry EXCEPT ![f] = array, !.env = env,
                         !.entry_type = IF kind = "command" THEN "command" ELSE "model",
                         !.enabled = (kind # "disabled_model"),
                         !.override_parent = TRUE,
                         !.extends = <<"net">>,
                         !.chdir = Some("/base"),
                         !.die_with_parent = TRUE,
                         !.new_session = TRUE]

\* the entry named "net": a template that names itself in extends
NetEntry(f, array, env) ==
    [DefaultEntry EXCEPT ![f] = array, !.env = env,
                         !.entry_type = "model",
                         !.extends = <<"net">>,
                         !.chdir = Some("/net")]

\* the configuration with the entry "node" and the templates that are present
ResolveConfig(node, base_kind, base, net_kind, net) ==
    ("node" :> node) @@
    (IF base_kind = "absent" THEN EmptyConfig ELSE "base" :> base) @@
    (IF net_kind = "absent" THEN EmptyConfig ELSE "net" :> net)

\* configurations whose three entries differ in one array field
ArrayConfigs ==
    {ResolveConfig([DefaultEntry EXCEPT ![f] = ac, !.extends = ex],
                   bk, BaseEntry(bk, f, ab, EmptyMap),
                   nk, NetEntry(f, an, EmptyMap)) :
        f \in ArrayFields, ex \in ExtendsLists, bk \in BaseKinds, nk \in NetKinds,
        ab \in {<<>>, <<"a">>, <<"a", "b">>},
        an \in {<<>>, <<"a">>, <<"c", "a">>},
        ac \in {<<>>, <<"a">>, <<"b", "d">>}}

\* configurations whose three entries differ in env
EnvConfigs ==
    {ResolveConfig([DefaultEntry EXCEPT !.env = ec, !.extends = ex],
                   bk, BaseEntry(bk, "share", <<>>, eb),
                   nk, NetEntry("share", <<>>, en)) :
        ex \in ExtendsLists, bk \in BaseKinds, nk \in NetKinds,
        eb \in {EmptyMap, "K" :> "b", ("K" :> "b") @@ ("L" :> "b")},
        en \in {EmptyMap, "K" :> "n"},
        ec \in {EmptyMap, "K" :> "c"}}

\* configurations whose entry "node" differs in its scalar fields
ScalarConfigs ==
    {ResolveConfig([DefaultEntry EXCEPT !.entry_type = t, !.enabled = en,
                                        !.override_parent = ov, !.chdir = ch,
                                        !.die_with_parent = d, !.new_session = ns,
                                        !.share = <<"user">>, !.extends = ex],
                   bk, BaseEntry(bk, "share", <<"pid">>, "K" :> "b"),
                   nk, NetEntry("share", <<"network">>, EmptyMap)) :
        t \in EntryType, en \in BOOLEAN, ov \in BOOLEAN, ch \in {None, Some("/work")},
        d \in BOOLEAN, ns \in BOOLEAN,
        ex \in ExtendsLists, bk \in BaseKinds, nk \in NetKinds}

\* the variables of Entry::deep_merge and Config::merge, unused
MergeIdle ==
    /\ parent_entry = DefaultEntry
    /\ child_entry = DefaultEntry
    /\ merged_entry = DefaultEntry
    /\ parent = EmptyConfig
    /\ child = EmptyConfig
    /\ visit_order = <<>>
    /\ merged_entries = EmptyConfig

InitResolve ==
    /\ pc = "start"
    /\ \/ /\ config \in ArrayConfigs \cup EnvConfigs
          /\ command = "node"
       \/ /\ config \in ScalarConfigs
          /\ command \in {"node", "base", "net", "missing"}
    /\ cmd_config = None
    /\ model_config = None
    /\ merged_config = None
    /\ MergeIdle
    /\ LoaderIdle
    /\ ParseIdle
    /\ RunIdle

\* let cmd_config = config.get_command(command).context(..)?
GetCommand ==
    /\ pc = "start"
    /\ cmd_config' = get_command(config, command)
    /\ pc' = IF cmd_config' = None THEN "not_found" ELSE "found"
    /\ UNCHANGED <<config, command, model_config, merged_config, mergeVars, loaderVars, parseVars, runVars>>

\* config.get_model(command), for the name get_command was given
GetModel ==
    /\ pc \in {"found", "not_found"}
    /\ model_config' = get_model(config, command)
    /\ pc' = "looked_up"
    /\ UNCHANGED <<config, command, cmd_config, merged_config, mergeVars, loaderVars, parseVars, runVars>>

\* let merged_config = config.merge_with_base(cmd_config)
MergeWithTemplate ==
    /\ pc = "found"
    /\ merged_config' = Some(merge_with_base(config, cmd_config[1]))
    /\ pc' = "resolved"
    /\ UNCHANGED <<config, command, cmd_config, model_config, mergeVars, loaderVars, parseVars, runVars>>

NextResolve == GetCommand \/ GetModel \/ MergeWithTemplate

SpecResolve == InitResolve /\ [][NextResolve]_vars

-----------------------------------------------------------------------------
(* Claims about command resolution, checked under SpecResolve *)

\* an entry of that name exists and is a Model
IsModel(cfg, n) == n \in DOMAIN cfg /\ cfg[n].entry_type = "model"

\* an entry of that name exists and is a Command
IsCommand(cfg, n) == n \in DOMAIN cfg /\ cfg[n].entry_type = "command"

\* field f of the templates named in `names`, one after the other; a name that is
\* no Model adds nothing
RECURSIVE ConcatTemplates(_, _, _)
ConcatTemplates(cfg, names, f) ==
    IF names = <<>> THEN <<>>
    ELSE (IF IsModel(cfg, Head(names)) THEN cfg[Head(names)][f] ELSE <<>>)
             \o ConcatTemplates(cfg, Tail(names), f)

\* C11: each array of the flattened entry is that array of every existing template
\* in extends order, then the command's own array, nothing removed
C11_ArraysConcatenated ==
    pc = "resolved" =>
        \A f \in ArrayFields :
            merged_config[1][f] =
                ConcatTemplates(config, cmd_config[1].extends, f) \o cmd_config[1][f]

\* C11 witness: an item that two templates and the command share appears three times
C11_Witness ==
    /\ pc = "resolved"
    /\ cmd_config[1].extends = <<"base", "net">>
    /\ IsModel(config, "base") /\ IsModel(config, "net")
    /\ config["base"].tmpfs = <<"a", "b">>
    /\ config["net"].tmpfs = <<"c", "a">>
    /\ cmd_config[1].tmpfs = <<"a">>
    /\ merged_config[1].tmpfs = <<"a", "b", "c", "a", "a">>

\* the positions of extends that name a Model whose env defines key k
Definers(cfg, extends, k) ==
    {i \in 1..Len(extends) : IsModel(cfg, extends[i]) /\ k \in DOMAIN cfg[extends[i]].env}

\* the largest number of a non-empty set of numbers
Last(S) == CHOOSE i \in S : \A j \in S : j <= i

\* C12: an env key takes the command's value when the command defines it, else the
\* value of the last template in extends order that defines it, else it is absent
C12_EnvPrecedence ==
    pc = "resolved" =>
        LET cmd == cmd_config[1]
            env == merged_config[1].env
        IN \A k \in {"K", "L"} \cup DOMAIN env :
               IF k \in DOMAIN cmd.env
               THEN k \in DOMAIN env /\ env[k] = cmd.env[k]
               ELSE IF Definers(config, cmd.extends, k) # {}
                    THEN /\ k \in DOMAIN env
                         /\ env[k] = config[cmd.extends[Last(Definers(config, cmd.extends, k))]].env[k]
                    ELSE k \notin DOMAIN env

\* C12 witness: the later template's value for K replaces the earlier one's, and
\* the earlier template's key L is kept
C12_Witness ==
    /\ pc = "resolved"
    /\ cmd_config[1].extends = <<"base", "net">>
    /\ cmd_config[1].env = EmptyMap
    /\ IsModel(config, "base") /\ IsModel(config, "net")
    /\ config["base"].env = ("K" :> "b") @@ ("L" :> "b")
    /\ config["net"].env = ("K" :> "n")
    /\ merged_config[1].env = ("K" :> "n") @@ ("L" :> "b")

\* C13: a name in extends that is no Model contributes nothing: with no Model
\* named, arrays and env are the command's own; otherwise the result is that of
\* the extends list without those names
C13_UnknownExtendsSkipped ==
    pc = "resolved" =>
        LET cmd == cmd_config[1]
            known == SelectSeq(cmd.extends, LAMBDA n : IsModel(config, n))
        IN /\ known = <<>> =>
                  /\ \A f \in ArrayFields : merged_config[1][f] = cmd[f]
                  /\ merged_config[1].env = cmd.env
           /\ merged_config[1] = merge_with_template(config, [cmd EXCEPT !.extends = known])

\* C13 witness: an unknown name before an existing template, which is still applied
C13_Witness ==
    /\ pc = "resolved"
    /\ cmd_config[1].extends = <<"missing", "net">>
    /\ IsModel(config, "net")
    /\ config["net"].share = <<"c", "a">>
    /\ cmd_config[1].share = <<"b", "d">>
    /\ merged_config[1].share = <<"c", "a", "b", "d">>

\* C14: the flattened entry has extends empty and the command's own entry_type,
\* enabled, override_parent, chdir, die_with_parent and new_session
C14_ScalarsFromCommand ==
    pc = "resolved" =>
        /\ merged_config[1].extends = <<>>
        /\ merged_config[1].entry_type = cmd_config[1].entry_type
        /\ merged_config[1].enabled = cmd_config[1].enabled
        /\ merged_config[1].override_parent = cmd_config[1].override_parent
        /\ merged_config[1].chdir = cmd_config[1].chdir
        /\ merged_config[1].die_with_parent = cmd_config[1].die_with_parent
        /\ merged_config[1].new_session = cmd_config[1].new_session

\* C14 witness: a template with chdir, die_with_parent, new_session and override set
\* was applied to a command that sets none of them
C14_Witness ==
    /\ pc = "resolved"
    /\ cmd_config[1].extends = <<"base">>
    /\ IsModel(config, "base")
    /\ config["base"].chdir = Some("/base")
    /\ config["base"].die_with_parent
    /\ cmd_config[1].chdir = None
    /\ ~cmd_config[1].die_with_parent
    /\ merged_config[1].share = <<"pid", "user">>
    /\ merged_config[1].chdir = None
    /\ ~merged_config[1].die_with_parent
    /\ ~merged_config[1].override_parent

\* C15: get_command returns the entry iff it exists with type Command, get_model
\* iff it exists with type Model; never both, and neither for an unknown name
C15_LookupByType ==
    pc = "looked_up" =>
        /\ cmd_config # None <=> IsCommand(config, command)
        /\ cmd_config # None => cmd_config = Some(config[command])
        /\ model_config # None <=> IsModel(config, command)
        /\ model_config # None => model_config = Some(config[command])
        /\ ~(cmd_config # None /\ model_config # None)
        /\ command \notin DOMAIN config => (cmd_config = None /\ model_config = None)

\* C15 witness: a disabled Command is returned by get_command and not by get_model
C15_Witness ==
    /\ pc = "looked_up"
    /\ command = "node"
    /\ ~config["node"].enabled
    /\ cmd_config = Some(config["node"])
    /\ model_config = None

\* C16: resolution yields no entry iff the configuration has no Command of that
\* name; a disabled command resolves to a flattened entry with enabled false
C16_ResolveIffCommand ==
    /\ pc = "not_found" => (~IsCommand(config, command) /\ merged_config = None)
    /\ pc = "found" => (IsCommand(config, command) /\ ENABLED MergeWithTemplate)
    /\ pc = "resolved" =>
           /\ IsCommand(config, command)
           /\ merged_config # None
           /\ merged_config[1].extends = <<>>
           /\ merged_config[1].enabled = config[command].enabled

\* C16 witness: a disabled command with a template resolved to a disabled entry
C16_Witness ==
    /\ pc = "resolved"
    /\ command = "node"
    /\ ~config["node"].enabled
    /\ config["node"].extends = <<"net">>
    /\ IsModel(config, "net")
    /\ ~merged_config[1].enabled
    /\ merged_config[1].share = <<"network", "user">>

-----------------------------------------------------------------------------
(* ConfigLoader::get_local_config_dir: src/src/config/loader.rs *)

\* deepest directory of the explored file system
MaxDepth == 4

\* the directories: the root <<>> and a chain of nested directories below it
Dirs == {[i \in 1..k |-> "d"] : k \in 0..MaxDepth}

\* Result<T>
Ok(v) == [ok |-> TRUE, value |-> v, error |-> <<>>]

Err(e) == [ok |-> FALSE, value |-> None, error |-> e]

\* mutant of path_parent: the root is its own parent
path_parent_root_is_own_parent(path) ==
    IF path = <<>> THEN Some(path) ELSE Some(SubSeq(path, 1, Len(path) - 1))

\* Path::parent: None for the root, else the path without its last component
path_parent(path) ==
    IF path = <<>> THEN None ELSE Some(SubSeq(path, 1, Len(path) - 1))

\* mutant of loop_body: the loop ends at a directory without parent before looking
\* for the file in it
loop_body_stop_before_root(d, files) ==
    IF path_parent(d) = None
    THEN [returns |-> TRUE, value |-> None, dir |-> d]
    ELSE IF d \in files
         THEN [returns |-> TRUE, value |-> Some(d), dir |-> d]
         ELSE [returns |-> FALSE, value |-> None, dir |-> path_parent(d)[1]]

\* one iteration of the `loop` of get_local_config_dir at directory d: whether the
\* function returns, with which Option<PathBuf>, and the next value of `dir`
loop_body(d, files) ==
    IF d \in files                                      \* config_path.exists()
    THEN [returns |-> TRUE, value |-> Some(d), dir |-> d]
    ELSE IF path_parent(d) # None
         THEN [returns |-> FALSE, value |-> None, dir |-> path_parent(d)[1]]
         ELSE [returns |-> TRUE, value |-> None, dir |-> d]   \* break; Ok(None)

\* the walk of get_local_config_dir, one directory at a time
InitWalk ==
    /\ pc = "start"
    /\ current_dir \in {None} \cup {Some(d) : d \in Dirs}
    /\ local_files \in SUBSET Dirs
    /\ dir = <<>>
    /\ local_config_dir = None
    /\ user_file = AbsentFile
    /\ local_file = AbsentFile
    /\ loaded = None
    /\ MergeIdle
    /\ ResolveIdle
    /\ ParseIdle
    /\ RunIdle

\* let current_dir = env::current_dir().context(..)?; let mut dir = ..
CurrentDir ==
    /\ pc = "start"
    /\ IF current_dir = None
       THEN pc' = "error" /\ dir' = dir
       ELSE pc' = "loop" /\ dir' = current_dir[1]
    /\ UNCHANGED <<current_dir, local_files, local_config_dir, user_file, local_file,
                   loaded, mergeVars, resolveVars,
                   parseVars, runVars>>

\* one iteration of the loop
WalkStep ==
    /\ pc = "loop"
    /\ LET step == loop_body(dir, local_files)
       IN /\ dir' = step.dir
          /\ local_config_dir' = step.value
          /\ pc' = IF step.returns THEN "returned" ELSE "loop"
    /\ UNCHANGED <<current_dir, local_files, user_file, local_file,
                   loaded, mergeVars, resolveVars,
                   parseVars, runVars>>

NextWalk == CurrentDir \/ WalkStep

SpecWalk == InitWalk /\ [][NextWalk]_vars

\* the program keeps running until get_local_config_dir returns
SpecWalkFair == SpecWalk /\ WF_vars(NextWalk)

-----------------------------------------------------------------------------
(* Claims about get_local_config_dir *)

\* the current directory and its ancestors up to the root
Ancestors(path) == {SubSeq(path, 1, k) : k \in 0..Len(path)}

\* C19: the directory returned is the nearest one, among the current directory and
\* its ancestors, that contains the local config file; nothing is returned iff
\* none of them, the root included, contains it
C19_NearestConfigDir ==
    pc = "returned" =>
        LET holders == Ancestors(current_dir[1]) \cap local_files
        IN /\ local_config_dir = None <=> holders = {}
           /\ local_config_dir # None =>
                  /\ local_config_dir[1] \in holders
                  /\ \A h \in holders : Len(h) <= Len(local_config_dir[1])

\* C19 witness: the file is in the root and in a directory between the root and the
\* current directory, and the nearer one is returned
C19_Witness ==
    /\ pc = "returned"
    /\ Len(current_dir[1]) = 3
    /\ local_files = {<<>>, <<"d">>, <<"d", "d", "d", "d">>}
    /\ local_config_dir = Some(<<"d">>)

\* C20: the walk ends, each further iteration is at the parent of the directory of
\* the one before, so no directory is visited twice, and a walk that found no file
\* has stopped at the directory without parent, the root
C20_WalkTerminates ==
    /\ <>(pc \in {"returned", "error"})
    /\ [][(pc = "loop" /\ pc' = "loop") => Len(dir') = Len(dir) - 1]_vars
    /\ [](pc = "returned" /\ local_config_dir = None => path_parent(dir) = None)

\* C20 witness: no directory holds the file and the walk from a directory three
\* levels deep has returned nothing at the root
C20_Witness ==
    /\ pc = "returned"
    /\ Len(current_dir[1]) = 3
    /\ Ancestors(current_dir[1]) \cap local_files = {}
    /\ dir = <<>>
    /\ local_config_dir = None

-----------------------------------------------------------------------------
(* ConfigLoader::load: src/src/config/loader.rs, Config::from_file:
   src/src/config/mod.rs *)

LOCAL_CONFIG_FILE_NAME == ".shwrap.yaml"

USER_CONFIG_FILE_NAME == "default.yaml"

USER_CONFIG_DIR_PATH == <<"~", ".config", "shwrap">>

\* Path::join
join(path, name) == path \o <<name>>

\* Config::from_file: read_to_string fails on a file that cannot be read, serde_yaml
\* on one that is not a configuration
from_file(path, file) ==
    CASE file.state = "unreadable" -> Err(<<"Failed to read config file", path>>)
      [] file.state = "malformed" -> Err(<<"Failed to parse YAML config", path>>)
      [] OTHER -> Ok(file.content)

\* the whole loop of get_local_config_dir from directory d
RECURSIVE walk(_, _)
walk(d, files) ==
    LET step == loop_body(d, files)
    IN IF step.returns THEN step.value ELSE walk(step.dir, files)

get_local_config_dir(cwd, files) ==
    IF cwd = None
    THEN Err(<<"Failed to get current directory", <<>>>>)
    ELSE Ok(walk(cwd[1], files))

get_local_config_file(cwd, files) ==
    LET found == get_local_config_dir(cwd, files)
    IN IF ~found.ok THEN found
       ELSE IF found.value # None
            THEN Ok(Some(join(found.value[1], LOCAL_CONFIG_FILE_NAME)))
            ELSE Ok(None)

get_user_config_file(ufile) ==
    LET config_path == join(USER_CONFIG_DIR_PATH, USER_CONFIG_FILE_NAME)
    IN IF ufile.state # "absent" THEN Ok(Some(config_path)) ELSE Ok(None)

\* mutant of load: the local configuration is the base and the user one overrides
load_user_overrides(cwd, files, ufile, lfile, order) ==
    LET user_config == get_user_config_file(ufile)
        local_config == get_local_config_file(cwd, files)
    IN IF ~local_config.ok THEN local_config
       ELSE CASE user_config.value # None /\ local_config.value # None ->
                   LET user == from_file(user_config.value[1], ufile)
                       local == from_file(local_config.value[1], lfile)
                   IN IF ~user.ok THEN user
                      ELSE IF ~local.ok THEN local
                      ELSE Ok(Some(merge(local.value, user.value,
                                         CHOOSE o \in Orders(DOMAIN user.value) : TRUE)))
              [] user_config.value # None /\ local_config.value = None ->
                   LET cfg == from_file(user_config.value[1], ufile)
                   IN IF ~cfg.ok THEN cfg ELSE Ok(Some(cfg.value))
              [] user_config.value = None /\ local_config.value # None ->
                   LET cfg == from_file(local_config.value[1], lfile)
                   IN IF ~cfg.ok THEN cfg ELSE Ok(Some(cfg.value))
              [] OTHER -> Ok(None)

\* mutant of load: a file that fails to load is left out
load_skip_failed(cwd, files, ufile, lfile, order) ==
    LET user_config == get_user_config_file(ufile)
        local_config == get_local_config_file(cwd, files)
    IN IF ~local_config.ok THEN local_config
       ELSE LET user == IF user_config.value # None
                        THEN from_file(user_config.value[1], ufile) ELSE Err(<<>>)
                local == IF local_config.value # None
                         THEN from_file(local_config.value[1], lfile) ELSE Err(<<>>)
            IN CASE user.ok /\ local.ok -> Ok(Some(merge(user.value, local.value, order)))
                 [] user.ok /\ ~local.ok -> Ok(Some(user.value))
                 [] ~user.ok /\ local.ok -> Ok(Some(local.value))
                 [] OTHER -> Ok(None)

\* ConfigLoader::load; order is the order in which Config::merge iterates the
\* entries of the local configuration
load(cwd, files, ufile, lfile, order) ==
    LET user_config == get_user_config_file(ufile)
        local_config == get_local_config_file(cwd, files)
    IN IF ~local_config.ok THEN local_config
       ELSE CASE user_config.value # None /\ local_config.value # None ->
                   LET user == from_file(user_config.value[1], ufile)
                       local == from_file(local_config.value[1], lfile)
                   IN IF ~user.ok THEN user
                      ELSE IF ~local.ok THEN local
                      ELSE Ok(Some(merge(user.value, local.value, order)))
              [] user_config.value # None /\ local_config.value = None ->
                   LET cfg == from_file(user_config.value[1], ufile)
                   IN IF ~cfg.ok THEN cfg ELSE Ok(Some(cfg.value))
              [] user_config.value = None /\ local_config.value # None ->
                   LET cfg == from_file(local_config.value[1], lfile)
                   IN IF ~cfg.ok THEN cfg ELSE Ok(Some(cfg.value))
              [] OTHER -> Ok(None)

\* the configurations a file can hold: an optional node command and an optional
\* npm command
LoadConfigs ==
    {ConfigOf(node, npm) : node \in Optional({e \in NodeInputs : e.enabled}),
                           npm \in Optional({[DefaultEntry EXCEPT !.share = <<"net">>]})}

\* a file that exists: one that cannot be read, one that is not a configuration,
\* or one that holds a configuration
ExistingFiles ==
    {[state |-> "unreadable", content |-> EmptyConfig],
     [state |-> "malformed", content |-> EmptyConfig]}
    \cup {[state |-> "valid", content |-> c] : c \in LoadConfigs}

\* local_files are the directories holding a local config file, and local_file is
\* the one nearest to the current directory
InitLoad ==
    /\ pc = "start"
    /\ current_dir \in {None} \cup {Some(d) : d \in Dirs}
    /\ local_files \in SUBSET Dirs
    /\ user_file \in {AbsentFile} \cup ExistingFiles
    /\ local_file \in ExistingFiles
    /\ dir = <<>>
    /\ local_config_dir = None
    /\ loaded = None
    /\ MergeIdle
    /\ ResolveIdle
    /\ ParseIdle
    /\ RunIdle

Load ==
    /\ pc = "start"
    /\ \E order \in Orders(DOMAIN local_file.content) :
           loaded' = load(current_dir, local_files, user_file, local_file, order)
    /\ pc' = "loaded"
    /\ UNCHANGED <<current_dir, local_files, dir, local_config_dir, user_file,
                   local_file, mergeVars, resolveVars,
                   parseVars, runVars>>

NextLoad == Load

SpecLoad == InitLoad /\ [][NextLoad]_vars

-----------------------------------------------------------------------------
(* Claims about ConfigLoader::load *)

\* the user config file exists
UserExists == user_file.state # "absent"

\* a local config file exists in the current directory or one of its ancestors
LocalExists == Ancestors(current_dir[1]) \cap local_files # {}

\* C17: with the current directory known, load returns Ok(None) iff neither the
\* user file nor a local file exists; when one exists and parses, the result is its
\* configuration unchanged; when both exist and parse, the result is
\* Config::merge(user, local), the user configuration being the parent and the
\* local one the child
C17_LoadByExistence ==
    pc = "loaded" =>
        /\ loaded = Ok(None) => current_dir # None /\ ~UserExists /\ ~LocalExists
        /\ current_dir # None =>
            /\ ~UserExists /\ ~LocalExists => loaded = Ok(None)
            /\ UserExists /\ ~LocalExists /\ user_file.state = "valid" =>
                   loaded = Ok(Some(user_file.content))
            /\ ~UserExists /\ LocalExists /\ local_file.state = "valid" =>
                   loaded = Ok(Some(local_file.content))
            /\ UserExists /\ LocalExists /\ user_file.state = "valid"
                   /\ local_file.state = "valid" =>
                   \E order \in Orders(DOMAIN local_file.content) :
                       loaded = Ok(Some(merge(user_file.content, local_file.content, order)))

\* C17 witness: both files exist and parse, the local file two directories above
\* the current one, and the result is the merge over the user configuration, which
\* differs from either configuration and from the merge over the local one
C17_Witness ==
    /\ pc = "loaded"
    /\ current_dir = Some(<<"d", "d", "d">>)
    /\ local_files = {<<"d">>}
    /\ user_file.state = "valid"
    /\ local_file.state = "valid"
    /\ loaded.ok
    /\ loaded.value # None
    /\ loaded.value[1] # user_file.content
    /\ loaded.value[1] # local_file.content
    /\ \A order \in Orders(DOMAIN user_file.content) :
           loaded.value[1] # merge(local_file.content, user_file.content, order)
    /\ \E order \in Orders(DOMAIN local_file.content) :
           loaded.value[1] = merge(user_file.content, local_file.content, order)

\* C18: when a file that exists cannot be read or parsed, load returns an error,
\* whatever the other file is
C18_BrokenFileFailsLoad ==
    pc = "loaded" =>
        /\ UserExists /\ user_file.state # "valid" => ~loaded.ok
        /\ current_dir # None /\ LocalExists /\ local_file.state # "valid" => ~loaded.ok

\* C18 witness: the user file is malformed, a local file with a node command
\* exists and parses, and load has failed on the user file
C18_Witness ==
    /\ pc = "loaded"
    /\ user_file.state = "malformed"
    /\ current_dir # None
    /\ LocalExists
    /\ local_file.state = "valid"
    /\ "node" \in DOMAIN local_file.content
    /\ ~loaded.ok
    /\ loaded.error[1] = "Failed to parse YAML config"
    /\ loaded.error[2] = join(USER_CONFIG_DIR_PATH, USER_CONFIG_FILE_NAME)

-----------------------------------------------------------------------------
(* Deserialization of an Entry: deserialize_extends and the serde defaults,
   src/src/config/mod.rs *)

\* YAML nodes
YamlNull == [kind |-> "null", value |-> <<>>]

YamlBool(b) == [kind |-> "bool", value |-> b]

YamlStr(s) == [kind |-> "str", value |-> s]

YamlSeq(nodes) == [kind |-> "seq", value |-> nodes]

\* the element of a sequence as a String
next_element(node) ==
    IF node.kind = "str" THEN Ok(node.value)
    ELSE Err(<<"invalid type, expected a string", <<>>>>)

\* ExtendsVisitor::visit_seq: vec.push(value) for each element, `?` on a failure
RECURSIVE visit_seq(_, _)
visit_seq(nodes, vec) ==
    IF nodes = <<>> THEN Ok(vec)
    ELSE LET value == next_element(Head(nodes))
         IN IF ~value.ok THEN value
            ELSE visit_seq(Tail(nodes), Append(vec, value.value))

\* mutant of deserialize_extends: a single name is taken for no name
deserialize_extends_drop_str(node) ==
    CASE node.kind = "str" -> Ok(<<>>)
      [] node.kind = "seq" -> visit_seq(node.value, <<>>)
      [] OTHER -> Err(<<"invalid type, expected a string or list of strings", <<>>>>)

\* deserialize_extends: deserialize_any with ExtendsVisitor, which has visit_str,
\* visit_string and visit_seq; any other node is an invalid type
deserialize_extends(node) ==
    CASE node.kind = "str" -> Ok(<<node.value>>)
      [] node.kind = "seq" -> visit_seq(node.value, <<>>)
      [] OTHER -> Err(<<"invalid type, expected a string or list of strings", <<>>>>)

default_enabled == TRUE

default_override == FALSE

\* #[serde(default, rename = "type")] entry_type: EntryType, lowercase names
deserialize_entry_type(node) ==
    CASE node.kind = "absent" -> Ok("command")
      [] node.kind = "str" /\ node.value \in EntryType -> Ok(node.value)
      [] OTHER -> Err(<<"unknown variant, expected command or model", <<>>>>)

\* #[serde(default = "default_enabled")] enabled: bool
deserialize_enabled(node) ==
    CASE node.kind = "absent" -> Ok(default_enabled)
      [] node.kind = "bool" -> Ok(node.value)
      [] OTHER -> Err(<<"invalid type, expected a boolean", <<>>>>)

\* #[serde(default, deserialize_with = "deserialize_extends")] extends
deserialize_extends_field(node) ==
    IF node.kind = "absent" THEN Ok(<<>>) ELSE deserialize_extends(node)

\* the derived Deserialize of Entry for a mapping with the keys type, enabled and
\* extends; every other field takes its default
deserialize_entry(yaml) ==
    LET entry_type == deserialize_entry_type(yaml.type)
        enabled == deserialize_enabled(yaml.enabled)
        extends == deserialize_extends_field(yaml.extends)
    IN IF ~entry_type.ok THEN entry_type
       ELSE IF ~enabled.ok THEN enabled
       ELSE IF ~extends.ok THEN extends
       ELSE Ok([DefaultEntry EXCEPT !.entry_type = entry_type.value,
                                    !.enabled = enabled.value,
                                    !.override_parent = default_override,
                                    !.extends = extends.value])

\* the names written in extends
YamlNames == {"base", "net", "missing"}

\* the values of the key extends: absent, null, a boolean, a name, a list of names
\* and a list with an element that is not a name
YamlExtends ==
    {Absent, YamlNull, YamlBool(TRUE)}
    \cup {YamlStr(n) : n \in YamlNames}
    \cup {YamlSeq([i \in 1..Len(names) |-> YamlStr(names[i])]) : names \in ExtendsLists}
    \cup {YamlSeq(<<YamlStr("base"), YamlSeq(<<>>)>>)}

YamlTypes == {Absent, YamlStr("command"), YamlStr("model"), YamlStr("template")}

YamlEnabled == {Absent, YamlBool(TRUE), YamlBool(FALSE), YamlStr("yes")}

InitParse ==
    /\ pc = "start"
    /\ yaml_entry \in [type : YamlTypes, enabled : YamlEnabled, extends : YamlExtends]
    /\ parsed = None
    /\ MergeIdle
    /\ ResolveIdle
    /\ LoaderIdle
    /\ RunIdle

Deserialize ==
    /\ pc = "start"
    /\ parsed' = deserialize_entry(yaml_entry)
    /\ pc' = "parsed"
    /\ UNCHANGED <<yaml_entry, mergeVars, resolveVars, loaderVars, runVars>>

NextParse == Deserialize

SpecParse == InitParse /\ [][NextParse]_vars

-----------------------------------------------------------------------------
(* Claims about the deserialization of extends, checked under SpecParse *)

\* the keys type and enabled hold values of their types
OtherKeysValid ==
    /\ deserialize_entry_type(yaml_entry.type).ok
    /\ deserialize_enabled(yaml_entry.enabled).ok

\* a list all of whose elements are names
IsNameList(node) ==
    node.kind = "seq" /\ \A i \in 1..Len(node.value) : node.value[i].kind = "str"

\* C21: an entry whose extends is the single name N is deserialized to the same
\* Entry as one whose extends is the list [N], with extends = <<N>>; a list of
\* names gives the names in their written order; an absent extends and an empty
\* list give the empty sequence
C21_ExtendsNormalized ==
    pc = "parsed" /\ OtherKeysValid =>
        LET node == yaml_entry.extends
        IN /\ node.kind = "str" =>
                  /\ parsed.ok
                  /\ parsed.value.extends = <<node.value>>
                  /\ parsed = deserialize_entry([yaml_entry EXCEPT !.extends = YamlSeq(<<node>>)])
           /\ IsNameList(node) =>
                  /\ parsed.ok
                  /\ Len(parsed.value.extends) = Len(node.value)
                  /\ \A i \in 1..Len(node.value) :
                         parsed.value.extends[i] = node.value[i].value
           /\ node.kind = "absent" \/ node = YamlSeq(<<>>) =>
                  parsed.ok /\ parsed.value.extends = <<>>

\* C21 witness: a list of two different names has been deserialized in its order
C21_Witness ==
    /\ pc = "parsed"
    /\ yaml_entry.type = YamlStr("model")
    /\ yaml_entry.extends = YamlSeq(<<YamlStr("net"), YamlStr("base")>>)
    /\ parsed.ok
    /\ parsed.value.extends = <<"net", "base">>

-----------------------------------------------------------------------------
(* show_command on two sources: ConfigLoader::load merges the user and the local
   configuration, then the command is looked up and flattened in the result;
   src/src/config/loader.rs, src/src/main.rs *)

\* config.get_command(command), then config.merge_with_base(cmd_config)
resolve_in(cfg, entry_name) ==
    LET cmd == get_command(cfg, entry_name)
    IN IF cmd = None THEN None ELSE Some(merge_with_base(cfg, cmd[1]))

\* every entry of a configuration flattened in that configuration
flatten_all(cfg) == [n \in DOMAIN cfg |-> merge_with_template(cfg, cfg[n])]

\* mutant of load_and_resolve: each source is flattened before the two are merged
load_and_resolve_flatten_first(user, local, order, entry_name) ==
    resolve_in(merge(flatten_all(user), flatten_all(local), order), entry_name)

\* the aggregation of load followed by the lookup and flattening of show_command
load_and_resolve(user, local, order, entry_name) ==
    resolve_in(merge(user, local, order), entry_name)

\* the entries named "base" of the user file: Models
UserBases ==
    {[DefaultEntry EXCEPT !.entry_type = "model", !.share = sh, !.env = ("K" :> "b"),
                          !.extends = <<"net">>] :
        sh \in {<<"a">>, <<"a", "b">>}}

\* the entries named "base" of the local file: a Model or a Command with each
\* enabled and override value
LocalBases ==
    {[DefaultEntry EXCEPT !.entry_type = t, !.share = sh, !.env = ("K" :> "n"),
                          !.enabled = en, !.override_parent = ov] :
        t \in EntryType, sh \in {<<>>, <<"b">>}, en \in BOOLEAN, ov \in BOOLEAN}

\* the entries named "node": Commands that extend base or nothing
SourceNodes ==
    {[DefaultEntry EXCEPT !.extends = ex, !.share = sh, !.override_parent = ov] :
        ex \in {<<>>, <<"base">>}, sh \in {<<>>, <<"c">>}, ov \in BOOLEAN}

\* the Config of a source with the entries that are present
SourceOf(base, node) ==
    (IF base = None THEN EmptyConfig ELSE "base" :> base[1]) @@
    (IF node = None THEN EmptyConfig ELSE "node" :> node[1])

InitShow ==
    /\ pc = "start"
    /\ parent \in {SourceOf(base, node) : base \in Optional(UserBases),
                                          node \in Optional(SourceNodes)}
    /\ child \in {SourceOf(base, node) : base \in Optional(LocalBases),
                                         node \in Optional(SourceNodes)}
    /\ command \in {"node", "base"}
    /\ parent_entry = DefaultEntry
    /\ child_entry = DefaultEntry
    /\ merged_entry = DefaultEntry
    /\ visit_order = <<>>
    /\ merged_entries = EmptyConfig
    /\ config = EmptyConfig
    /\ cmd_config = None
    /\ model_config = None
    /\ merged_config = None
    /\ LoaderIdle
    /\ ParseIdle
    /\ RunIdle

\* show_command when both files exist and parse
ShowCommand ==
    /\ pc = "start"
    /\ \E order \in Orders(DOMAIN child) :
           /\ visit_order' = order
           /\ merged_entries' = merge(parent, child, order)
           /\ merged_config' = load_and_resolve(parent, child, order, command)
    /\ config' = merged_entries'
    /\ cmd_config' = get_command(config', command)
    /\ pc' = "shown"
    /\ UNCHANGED <<parent_entry, child_entry, merged_entry, parent, child, command,
                   model_config, loaderVars, parseVars, runVars>>

NextShow == ShowCommand

SpecShow == InitShow /\ [][NextShow]_vars

-----------------------------------------------------------------------------
(* Claims about the order of aggregation and flattening, checked under SpecShow *)

\* the entry of name n that the aggregation rules give, templates not looked at
AggregatedEntry(n) ==
    CASE n \notin DOMAIN child -> parent[n]
      [] n \notin DOMAIN parent -> child[n]
      [] ~child[n].enabled -> parent[n]
      [] child[n].override_parent -> child[n]
      [] OTHER -> deep_merge(parent[n], child[n])

\* the names of extends that are Models after aggregation, in their order
AggregatedModels(extends) ==
    SelectSeq(extends, LAMBDA n : /\ n \in DOMAIN parent \cup DOMAIN child
                                  /\ AggregatedEntry(n).entry_type = "model")

\* the concatenation of field f of the aggregated Models named in names
RECURSIVE ConcatAggregated(_, _)
ConcatAggregated(names, f) ==
    IF names = <<>> THEN <<>>
    ELSE AggregatedEntry(Head(names))[f] \o ConcatAggregated(Tail(names), f)

\* C22: Config::merge leaves extends unexpanded, every aggregated entry being the
\* parent's, the child's or their deep merge with the extends as written; and the
\* flattened command takes its template arrays and env from the aggregated
\* Models, wherever they were defined
C22_ExtendsAfterAggregation ==
    pc = "shown" =>
        /\ DOMAIN merged_entries = DOMAIN parent \cup DOMAIN child
        /\ \A n \in DOMAIN merged_entries : merged_entries[n] = AggregatedEntry(n)
        /\ merged_config # None =>
              LET cmd == AggregatedEntry(command)
                  models == AggregatedModels(cmd.extends)
              IN /\ merged_config[1].share = ConcatAggregated(models, "share") \o cmd.share
                 /\ merged_config[1].env =
                        IF models = <<>> THEN cmd.env
                        ELSE cmd.env @@ AggregatedEntry(models[Len(models)]).env

\* C22 witness: node is defined in the local file only and extends base, a Model
\* of both files that the local one deep-merges; node has the merged shares
C22_Witness ==
    /\ pc = "shown"
    /\ command = "node"
    /\ "node" \notin DOMAIN parent
    /\ "node" \in DOMAIN child
    /\ child["node"].extends = <<"base">>
    /\ child["node"].share = <<"c">>
    /\ "base" \in DOMAIN parent
    /\ parent["base"].share = <<"a">>
    /\ "base" \in DOMAIN child
    /\ child["base"].entry_type = "model"
    /\ child["base"].enabled
    /\ ~child["base"].override_parent
    /\ child["base"].share = <<"b">>
    /\ merged_entries["node"].extends = <<"base">>
    /\ merged_config # None
    /\ merged_config[1].share = <<"a", "b", "c">>

-----------------------------------------------------------------------------
(* WrappedCommandBuilder::build_args: src/src/bwrap/mod.rs *)

NAMESPACES == <<"user", "pid", "network", "ipc", "uts", "cgroup">>

\* the elements of a Vec
Range(vec) == {vec[i] : i \in 1..Len(vec)}

\* the `match *namespace` of build_args: the flag pushed for a namespace
unshare_flag(namespace) ==
    CASE namespace = "network" -> <<"--unshare-net">>
      [] namespace = "pid" -> <<"--unshare-pid">>
      [] namespace = "ipc" -> <<"--unshare-ipc">>
      [] namespace = "uts" -> <<"--unshare-uts">>
      [] namespace = "user" -> <<"--unshare-user">>
      [] namespace = "cgroup" -> <<"--unshare-cgroup">>
      [] OTHER -> <<>>

\* mutant of unshare_args: the namespaces of share are the ones unshared
RECURSIVE unshare_args_of_shared(_, _)
unshare_args_of_shared(share, i) ==
    IF i > Len(NAMESPACES) THEN <<>>
    ELSE (IF NAMESPACES[i] \in Range(share) THEN unshare_flag(NAMESPACES[i]) ELSE <<>>)
         \o unshare_args_of_shared(share, i + 1)

\* `for namespace in &NAMESPACES` from the i-th on: a flag for each namespace that
\* the set shared_namespaces does not contain
RECURSIVE unshare_args(_, _)
unshare_args(share, i) ==
    IF i > Len(NAMESPACES) THEN <<>>
    ELSE (IF NAMESPACES[i] \notin Range(share) THEN unshare_flag(NAMESPACES[i]) ELSE <<>>)
         \o unshare_args(share, i + 1)

\* shellexpand::full(..).unwrap_or_else(..): a leading tilde becomes the home
\* directory, a path without tilde or variable is kept
shellexpand_full(path) ==
    CASE path = "~" -> "/home/user"
      [] path = "~/src" -> "/home/user/src"
      [] OTHER -> path

\* `for (src, dst) in ..`: the flag, then the expanded source and destination
RECURSIVE pair_args(_, _)
pair_args(flag, pairs) ==
    IF pairs = <<>> THEN <<>>
    ELSE <<flag, shellexpand_full(Head(pairs)[1]), shellexpand_full(Head(pairs)[2])>>
         \o pair_args(flag, Tail(pairs))

\* `for x in ..`: the flag, then the value
RECURSIVE value_args(_, _)
value_args(flag, values) ==
    IF values = <<>> THEN <<>>
    ELSE <<flag, Head(values)>> \o value_args(flag, Tail(values))

\* `for (key, value) in &self.config.env`, the HashMap iterated in `order`
RECURSIVE env_args(_, _)
env_args(env, order) ==
    IF order = <<>> THEN <<>>
    ELSE <<"--setenv", Head(order), env[Head(order)]>> \o env_args(env, Tail(order))

\* WrappedCommandBuilder::build_args for the Entry cfg
build_args(cfg, order) ==
    (IF cfg.die_with_parent THEN <<"--die-with-parent">> ELSE <<>>)
    \o (IF cfg.new_session THEN <<"--new-session">> ELSE <<>>)
    \o unshare_args(cfg.share, 1)
    \o pair_args("--bind", cfg.bind)
    \o pair_args("--ro-bind", cfg.ro_bind)
    \o pair_args("--dev-bind", cfg.dev_bind)
    \o pair_args("--bind-try", cfg.bind_try)
    \o pair_args("--ro-bind-try", cfg.ro_bind_try)
    \o pair_args("--dev-bind-try", cfg.dev_bind_try)
    \o value_args("--tmpfs", cfg.tmpfs)
    \o (IF cfg.chdir # None
        THEN <<"--chdir", shellexpand_full(cfg.chdir[1])>> ELSE <<>>)
    \o value_args("--cap-add", cfg.cap)
    \o env_args(cfg.env, order)
    \o value_args("--unsetenv", cfg.unset_env)

\* the names written in share: the six namespaces and one that is none of them
ShareNames == <<"user", "pid", "network", "ipc", "uts", "cgroup", "mount">>

\* the share lists: every set of names once, in the order of ShareNames, and every
\* list of at most MaxLen names, repetitions included
ShareInputs ==
    {SelectSeq(ShareNames, LAMBDA n : n \in S) : S \in SUBSET Range(ShareNames)}
    \cup UNION {[1..k -> Range(ShareNames)] : k \in 0..MaxLen}

\* the other fields of the Entry the builder is given
BuilderProfiles ==
    {DefaultEntry,
     [DefaultEntry EXCEPT !.die_with_parent = TRUE, !.bind = <<<<"~/src", "/src">>>>,
                          !.tmpfs = <<"/tmp">>, !.env = ("K" :> "b") @@ ("L" :> "n")],
     [DefaultEntry EXCEPT !.new_session = TRUE, !.ro_bind = <<<<"/usr", "/usr">>>>,
                          !.chdir = Some("~"), !.cap = <<"CAP_NET_ADMIN">>,
                          !.unset_env = <<"DEBUG">>]}

InitBuild ==
    /\ pc = "start"
    /\ merged_config \in {Some([e EXCEPT !.share = sh]) : e \in BuilderProfiles,
                                                            sh \in ShareInputs}
    /\ args = <<>>
    /\ visit_order = <<>>
    /\ parent_entry = DefaultEntry
    /\ child_entry = DefaultEntry
    /\ merged_entry = DefaultEntry
    /\ parent = EmptyConfig
    /\ child = EmptyConfig
    /\ merged_entries = EmptyConfig
    /\ config = EmptyConfig
    /\ command = ""
    /\ cmd_config = None
    /\ model_config = None
    /\ executed = <<>>
    /\ cwd_file = AbsentFile
    /\ init_result = None
    /\ LoaderIdle
    /\ ParseIdle

\* WrappedCommandBuilder::new(merged_config), then build_args
BuildArgs ==
    /\ pc = "start"
    /\ \E order \in Orders(DOMAIN merged_config[1].env) :
           /\ visit_order' = order
           /\ args' = build_args(merged_config[1], order)
    /\ pc' = "built"
    /\ UNCHANGED <<parent_entry, child_entry, merged_entry, parent, child,
                   merged_entries, resolveVars, loaderVars, parseVars,
                   executed, cwd_file, init_result>>

NextBuild == BuildArgs

SpecBuild == InitBuild /\ [][NextBuild]_vars

-----------------------------------------------------------------------------
(* Claims about build_args, checked under SpecBuild *)

\* C23: for each of the six namespaces its --unshare flag is in the arguments iff
\* the namespace is not in share, and a share element that is none of the six
\* changes nothing
C23_UnshareIffNotShared ==
    pc = "built" =>
        LET share == merged_config[1].share
            known == SelectSeq(share, LAMBDA n : n \in Range(NAMESPACES))
        IN /\ \A i \in 1..Len(NAMESPACES) :
                  unshare_flag(NAMESPACES[i])[1] \in Range(args)
                      <=> NAMESPACES[i] \notin Range(share)
           /\ share = <<>> =>
                  \A i \in 1..Len(NAMESPACES) : unshare_flag(NAMESPACES[i])[1] \in Range(args)
           /\ Range(NAMESPACES) \subseteq Range(share) =>
                  \A i \in 1..Len(NAMESPACES) : unshare_flag(NAMESPACES[i])[1] \notin Range(args)
           /\ args = build_args([merged_config[1] EXCEPT !.share = known], visit_order)

\* C23 witness: share names the network namespace and a name that is no namespace,
\* and the five other namespaces are unshared
C23_Witness ==
    /\ pc = "built"
    /\ merged_config[1].share = <<"network", "mount">>
    /\ merged_config[1].die_with_parent
    /\ SelectSeq(args, LAMBDA a : a \in {unshare_flag(NAMESPACES[i])[1] : i \in 1..Len(NAMESPACES)})
           = <<"--unshare-user", "--unshare-pid", "--unshare-ipc", "--unshare-uts",
               "--unshare-cgroup">>

-----------------------------------------------------------------------------
(* wrap_command: src/src/main.rs, WrappedCommandBuilder::exec: src/src/bwrap/mod.rs *)

\* the arguments given after the command name
CommandArgs == <<"--version">>

\* mutant of enabled_check: a disabled command passes
enabled_check_skipped(cmd) == Ok(None)

\* if !cmd_config.enabled { bail!(..) }
enabled_check(cmd) ==
    IF ~cmd.enabled
    THEN Err(<<"Command is disabled in configuration", <<>>>>)
    ELSE Ok(None)

\* the command line WrappedCommandBuilder::exec runs
exec_command_line(bwrap_args, entry_name, command_args) ==
    <<"bwrap">> \o bwrap_args \o <<entry_name>> \o command_args

\* the entries named "node" of the files wrap_command loads
WrapNodes ==
    {[DefaultEntry EXCEPT !.enabled = en, !.override_parent = ov,
                          !.extends = <<"base">>, !.share = <<"network">>] :
        en \in BOOLEAN, ov \in BOOLEAN}

WrapBases == {[DefaultEntry EXCEPT !.entry_type = "model", !.tmpfs = <<"/tmp">>]}

WrapConfigs ==
    {SourceOf(base, node) : base \in Optional(WrapBases), node \in Optional(WrapNodes)}

\* the files wrap_command can find: none, one that is not a configuration, or one
\* that holds a configuration
WrapFiles ==
    {[state |-> "malformed", content |-> EmptyConfig]}
    \cup {[state |-> "valid", content |-> c] : c \in WrapConfigs}

InitWrap ==
    /\ pc = "start"
    /\ current_dir \in {None, Some(<<"d">>)}
    /\ local_files \in {{}, {<<>>}}
    /\ user_file \in {AbsentFile} \cup WrapFiles
    /\ local_file \in WrapFiles
    /\ command \in {"node", "base", "missing"}
    /\ dir = <<>>
    /\ local_config_dir = None
    /\ loaded = None
    /\ config = EmptyConfig
    /\ cmd_config = None
    /\ model_config = None
    /\ merged_config = None
    /\ MergeIdle
    /\ ParseIdle
    /\ RunIdle

\* let config = ConfigLoader::load()?.context("No configuration found")?
WrapLoad ==
    /\ pc = "start"
    /\ \E order \in Orders(DOMAIN local_file.content) :
           loaded' = load(current_dir, local_files, user_file, local_file, order)
    /\ IF loaded'.ok /\ loaded'.value # None
       THEN config' = loaded'.value[1] /\ pc' = "loaded"
       ELSE config' = config /\ pc' = "error"
    /\ UNCHANGED <<current_dir, local_files, dir, local_config_dir, user_file,
                   local_file, command, cmd_config, model_config, merged_config,
                   mergeVars, parseVars, runVars>>

\* let cmd_config = config.get_command(command).context(..)?
WrapGetCommand ==
    /\ pc = "loaded"
    /\ cmd_config' = get_command(config, command)
    /\ pc' = IF cmd_config' = None THEN "error" ELSE "found"
    /\ UNCHANGED <<config, command, model_config, merged_config,
                   mergeVars, loaderVars, parseVars, runVars>>

\* if !cmd_config.enabled { bail!(..) }
WrapCheckEnabled ==
    /\ pc = "found"
    /\ pc' = IF enabled_check(cmd_config[1]).ok THEN "enabled" ELSE "error"
    /\ UNCHANGED <<resolveVars, mergeVars, loaderVars, parseVars, runVars>>

\* let merged_config = config.merge_with_base(cmd_config)
WrapMergeWithBase ==
    /\ pc = "enabled"
    /\ merged_config' = Some(merge_with_base(config, cmd_config[1]))
    /\ pc' = "flattened"
    /\ UNCHANGED <<config, command, cmd_config, model_config,
                   mergeVars, loaderVars, parseVars, runVars>>

\* builder.exec(command, args)?: build_args, then cmd.status()?, which fails when
\* bwrap cannot be started
WrapExec ==
    /\ pc = "flattened"
    /\ \E order \in Orders(DOMAIN merged_config[1].env) :
           args' = build_args(merged_config[1], order)
    /\ \E started \in BOOLEAN :
           IF started
           THEN /\ executed' = Append(executed, exec_command_line(args', command, CommandArgs))
                /\ pc' = "exited"
           ELSE /\ executed' = executed
                /\ pc' = "error"
    /\ UNCHANGED <<cwd_file, init_result, resolveVars, mergeVars, loaderVars, parseVars>>

NextWrap ==
    WrapLoad \/ WrapGetCommand \/ WrapCheckEnabled \/ WrapMergeWithBase \/ WrapExec

SpecWrap == InitWrap /\ [][NextWrap]_vars

-----------------------------------------------------------------------------
(* Claims about wrap_command, checked under SpecWrap *)

\* load returned a configuration
ConfigLoaded == loaded # None /\ loaded.ok /\ loaded.value # None

\* C24: bwrap is run and the command is flattened only after load has returned a
\* configuration, get_command an entry, and that entry is enabled; the steps are
\* taken in the order load, lookup, enabled check, flattening, exec, and a
\* failure of one of the first three ends wrap_command with neither flattening
\* nor exec
C24_ExecOnlyWhenEnabled ==
    /\ [](executed # <<>> \/ merged_config # None =>
              /\ ConfigLoaded
              /\ cmd_config # None
              /\ cmd_config[1] = get_command(loaded.value[1], command)[1]
              /\ cmd_config[1].enabled)
    /\ [](pc = "error" /\ (~ConfigLoaded \/ cmd_config = None \/ ~cmd_config[1].enabled) =>
              merged_config = None /\ executed = <<>>)
    /\ [][/\ loaded' # loaded => pc = "start"
          /\ cmd_config' # cmd_config => pc = "loaded"
          /\ pc' = "enabled" => pc = "found"
          /\ merged_config' # merged_config => pc = "enabled"
          /\ executed' # executed => pc = "flattened" /\ Len(executed') = 1]_vars

\* C24 witness: both files define node, the aggregated node is disabled, and
\* wrap_command has ended with an error without flattening or running bwrap
C24_Witness ==
    /\ pc = "error"
    /\ command = "node"
    /\ user_file.state = "valid"
    /\ "node" \in DOMAIN user_file.content
    /\ current_dir # None
    /\ local_files # {}
    /\ local_file.state = "valid"
    /\ "node" \in DOMAIN local_file.content
    /\ ConfigLoaded
    /\ cmd_config # None
    /\ ~cmd_config[1].enabled
    /\ merged_config = None
    /\ executed = <<>>

-----------------------------------------------------------------------------
(* Further claims about Config::merge, checked under SpecMerge *)

\* C25: for every name of both sources the merged entry is disabled iff the base
\* entry and the override entry are both disabled
C25_DisabledIffBothDisabled ==
    pc = "merged" =>
        \A n \in CommonNames :
            ~merged_entries[n].enabled <=> (~parent[n].enabled /\ ~child[n].enabled)

\* C25 witness: a disabled override has left an enabled base entry enabled, and an
\* enabled override has enabled a disabled base entry
C25_Witness ==
    /\ pc = "merged"
    /\ CommonNames = {"node", "npm"}
    /\ parent["node"].enabled
    /\ ~child["node"].enabled
    /\ child["node"].override_parent
    /\ merged_entries["node"].enabled
    /\ ~parent["npm"].enabled
    /\ child["npm"].enabled
    /\ merged_entries["npm"].enabled

-----------------------------------------------------------------------------
(* Config::merge applied a second time with the same override *)

\* Config::merge(config, child), config being the result of the first merge
Remerge ==
    /\ pc = "merged"
    /\ config' = merged_entries
    /\ \E order \in Orders(DOMAIN child) :
           /\ visit_order' = order
           /\ merged_entries' = merge(merged_entries, child, order)
    /\ pc' = "remerged"
    /\ UNCHANGED <<parent_entry, child_entry, merged_entry, parent, child>>
    /\ UNCHANGED <<command, cmd_config, model_config, merged_config>>
    /\ UNCHANGED <<loaderVars, parseVars, runVars>>

NextRemerge == Merge \/ Remerge

SpecRemerge == InitMerge /\ [][NextRemerge]_vars

\* the entries of the override that the first merge inserts as they are and the
\* second merge deep-merges with themselves
InsertedThenMerged ==
    {n \in DOMAIN child \ DOMAIN parent : child[n].enabled /\ ~child[n].override_parent}

\* C26 as stated: merging the same override into the result of the merge gives
\* that result again
C26_RemergeIsIdentity ==
    pc = "remerged" => merged_entries = config

\* C26 amended: the same, when no array repeats an item in an entry of the
\* override that is enabled, has override=false and has no entry of its name in
\* the base
C26_RemergeIsIdentityNoDuplicates ==
    pc = "remerged" /\ NoDuplicateItems(Restrict(child, InsertedThenMerged)) =>
        merged_entries = config

\* C26 witness: the override was deep-merged into an entry with other shares, and
\* merging it again has changed nothing
C26_Witness ==
    /\ pc = "remerged"
    /\ "node" \in DOMAIN child
    /\ child["node"].enabled
    /\ ~child["node"].override_parent
    /\ child["node"].share = <<"network">>
    /\ "node" \in DOMAIN parent
    /\ parent["node"].share = <<"user", "pid">>
    /\ config["node"].share = <<"user", "pid", "network">>
    /\ InsertedThenMerged # {}
    /\ merged_entries = config

-----------------------------------------------------------------------------
(* Config::merge_with_template applied to its own result *)

\* config.merge_with_template(e) for the entry e of the given name, of any type
Flatten ==
    /\ pc = "start"
    /\ command \in DOMAIN config
    /\ cmd_config' = Some(config[command])
    /\ merged_config' = Some(merge_with_template(config, config[command]))
    /\ pc' = "flattened"
    /\ UNCHANGED <<config, command, model_config, mergeVars, loaderVars,
                   parseVars, runVars>>

\* config.merge_with_template(merged), merged being the result of the first call
Reflatten ==
    /\ pc = "flattened"
    /\ cmd_config' = merged_config
    /\ merged_config' = Some(merge_with_template(config, merged_config[1]))
    /\ pc' = "reflattened"
    /\ UNCHANGED <<config, command, model_config, mergeVars, loaderVars,
                   parseVars, runVars>>

NextReflatten == Flatten \/ Reflatten

SpecReflatten == InitResolve /\ [][NextReflatten]_vars

\* C27: merge_with_template applied to the result of merge_with_template returns
\* that result, whose extends is empty
C27_FlattenIdempotent ==
    pc = "reflattened" =>
        /\ cmd_config[1].extends = <<>>
        /\ merged_config = cmd_config

\* C27 witness: the entry extends two Models that both contribute shares, and
\* flattening its flattened form has changed nothing
C27_Witness ==
    /\ pc = "reflattened"
    /\ command = "node"
    /\ config["node"].extends = <<"base", "net">>
    /\ config["node"].share = <<"a">>
    /\ IsModel(config, "base")
    /\ config["base"].share = <<"a", "b">>
    /\ IsModel(config, "net")
    /\ config["net"].share = <<"c", "a">>
    /\ cmd_config[1].share = <<"a", "b", "c", "a", "a">>
    /\ merged_config = cmd_config

-----------------------------------------------------------------------------
(* Config::merge_with_template, one iteration of its loop at a time, in
   configurations whose Models extend Models *)

\* the templates: a Model with its own share and env that extends nothing, itself,
\* or the other template
ChainModels(item, key) ==
    {[DefaultEntry EXCEPT !.entry_type = "model", !.share = <<item>>,
                          !.env = (key :> item), !.extends = ex] :
        ex \in {<<>>, <<"base">>, <<"net">>, <<"net", "base">>}}

\* the commands: every extends list over the names of the templates and a name
\* that no entry has
ChainNodes ==
    {[DefaultEntry EXCEPT !.share = sh, !.extends = ex] :
        sh \in {<<>>, <<"a">>}, ex \in ExtendsLists}

ChainConfigs ==
    {("node" :> node) @@
     (IF base = None THEN EmptyConfig ELSE "base" :> base[1]) @@
     (IF net = None THEN EmptyConfig ELSE "net" :> net[1]) :
        node \in ChainNodes,
        base \in Optional(ChainModels("b", "B")),
        net \in Optional(ChainModels("c", "C"))}

InitFlattenSteps ==
    /\ pc = "start"
    /\ config \in ChainConfigs
    /\ command \in {"node", "base", "net"}
    /\ cmd_config = None
    /\ model_config = None
    /\ merged_config = None
    /\ MergeIdle
    /\ LoaderIdle
    /\ ParseIdle
    /\ RunIdle

\* the saved values of the command and `let mut result = Entry { .. }`
FlattenStart ==
    /\ pc = "start"
    /\ command \in DOMAIN config
    /\ cmd_config' = Some(config[command])
    /\ merged_config' = Some(initial_result(config[command]))
    /\ visit_order' = config[command].extends
    /\ pc' = "templates"
    /\ UNCHANGED <<parent_entry, child_entry, merged_entry, parent, child, merged_entries>>
    /\ UNCHANGED <<config, command, model_config, loaderVars, parseVars, runVars>>

\* one iteration of `for model_name in &cmd_config.extends`
FlattenTemplate ==
    /\ pc = "templates"
    /\ visit_order # <<>>
    /\ merged_config' = Some(template_step(config, merged_config[1], Head(visit_order)))
    /\ visit_order' = Tail(visit_order)
    /\ pc' = "templates"
    /\ UNCHANGED <<parent_entry, child_entry, merged_entry, parent, child, merged_entries>>
    /\ UNCHANGED <<config, command, cmd_config, model_config,
                   loaderVars, parseVars, runVars>>

\* the end of the loop: the command's own values are applied and result returned
FlattenCommand ==
    /\ pc = "templates"
    /\ visit_order = <<>>
    /\ merged_config' = Some(apply_command(merged_config[1], cmd_config[1]))
    /\ pc' = "flattened"
    /\ UNCHANGED <<config, command, cmd_config, model_config,
                   mergeVars, loaderVars, parseVars, runVars>>

NextFlattenSteps == FlattenStart \/ FlattenTemplate \/ FlattenCommand

SpecFlattenSteps == InitFlattenSteps /\ [][NextFlattenSteps]_vars

\* merge_with_template runs until it returns
SpecFlattenStepsFair == SpecFlattenSteps /\ WF_vars(NextFlattenSteps)

\* the configuration with the extends of every Model erased
WithoutModelExtends(cfg) ==
    [n \in DOMAIN cfg |->
        IF cfg[n].entry_type = "model" THEN [cfg[n] EXCEPT !.extends = <<>>] ELSE cfg[n]]

\* the shares and env keys of the Models that extends names directly
DirectShares(cfg, extends) ==
    UNION {Range(cfg[extends[i]].share) : i \in {j \in 1..Len(extends) : IsModel(cfg, extends[j])}}

DirectEnvKeys(cfg, extends) ==
    UNION {DOMAIN cfg[extends[i]].env : i \in {j \in 1..Len(extends) : IsModel(cfg, extends[j])}}

\* C28: flattening ends after one iteration for each name of the entry's extends,
\* whatever the Models extend; the result has the shares and env of the Models
\* named directly and of the entry only, the same as if no Model had an extends
C28_SingleLevelFlattening ==
    /\ (pc = "templates") ~> (pc = "flattened")
    /\ [][pc = "templates" /\ pc' = "templates" => visit_order' = Tail(visit_order)]_vars
    /\ [](pc = "flattened" =>
              LET entry == config[command]
              IN /\ merged_config[1] = merge_with_template(config, entry)
                 /\ merged_config[1] = merge_with_template(WithoutModelExtends(config), entry)
                 /\ Range(merged_config[1].share) =
                        DirectShares(config, entry.extends) \cup Range(entry.share)
                 /\ DOMAIN merged_config[1].env =
                        DirectEnvKeys(config, entry.extends) \cup DOMAIN entry.env)

\* C28 witness: node extends base only, base extends net and net extends base;
\* the flattened node has the share and env of base alone
C28_Witness ==
    /\ pc = "flattened"
    /\ command = "node"
    /\ config["node"].extends = <<"base">>
    /\ config["node"].share = <<"a">>
    /\ IsModel(config, "base")
    /\ config["base"].extends = <<"net">>
    /\ IsModel(config, "net")
    /\ config["net"].extends = <<"net", "base">>
    /\ merged_config[1].share = <<"b", "a">>
    /\ DOMAIN merged_config[1].env = {"B"}

-----------------------------------------------------------------------------
(* Further claims about command resolution, checked under SpecResolve *)

\* the configuration with every entry enabled
AllEnabled(cfg) == [n \in DOMAIN cfg |-> [cfg[n] EXCEPT !.enabled = TRUE]]

\* the Models of the configuration
OnlyModels(cfg) == Restrict(cfg, {n \in DOMAIN cfg : cfg[n].entry_type = "model"})

\* the positions of extends whose name is a Model
ModelPositions(cfg, extends) == {i \in 1..Len(extends) : IsModel(cfg, extends[i])}

\* C29: a name of extends contributes its arrays and env iff it is the name of a
\* Model: the items and env keys of the flattened entry are those of the Models
\* named and of the command, the enabled flags of the Models change nothing, and
\* neither do the entries that are Commands
C29_ModelsAppliedWhateverEnabled ==
    pc = "resolved" =>
        LET cmd == cmd_config[1]
            models == ModelPositions(config, cmd.extends)
        IN /\ \A f \in ArrayFields :
                  Range(merged_config[1][f]) =
                      UNION {Range(config[cmd.extends[i]][f]) : i \in models}
                          \cup Range(cmd[f])
           /\ DOMAIN merged_config[1].env =
                  UNION {DOMAIN config[cmd.extends[i]].env : i \in models}
                      \cup DOMAIN cmd.env
           /\ merged_config[1] = merge_with_template(AllEnabled(config), cmd)
           /\ merged_config[1] = merge_with_template(OnlyModels(config), cmd)

\* C29 witness: base is a disabled Model named in extends and its shares are in
\* the flattened command
C29_Witness ==
    /\ pc = "resolved"
    /\ cmd_config[1].extends = <<"base">>
    /\ cmd_config[1].share = <<>>
    /\ IsModel(config, "base")
    /\ ~config["base"].enabled
    /\ config["base"].share = <<"a", "b">>
    /\ merged_config[1].share = <<"a", "b">>

-----------------------------------------------------------------------------
(* initialize_config: src/src/main.rs *)

\* include_str!("../examples/default.yaml"): the template, a file with a
\* configuration of its own
template_content ==
    [state |-> "valid",
     content |-> "ls" :> [DefaultEntry EXCEPT !.share = <<"user">>]]

\* a symbolic link whose target does not exist
BrokenLink == [state |-> "broken_link", content |-> EmptyConfig]

\* a file that was created and not written
EmptyFile == [state |-> "malformed", content |-> EmptyConfig]

\* mutant of path_exists: the file is never found
path_exists_never(file) == FALSE

\* Path::exists: false when the metadata of the file cannot be read, as for a
\* path that names nothing and for a broken symbolic link
path_exists(file) == file.state \notin {"absent", "broken_link"}

\* the outcomes of fs::write, which creates or truncates the file and then writes:
\* the creation fails, the write fails after the creation, or both succeed
WriteOutcomes == {"create_failed", "write_failed", "written"}

InitInitialize ==
    /\ pc = "start"
    /\ current_dir \in {Some(d) : d \in Dirs}
    /\ cwd_file \in {AbsentFile, BrokenLink} \cup ExistingFiles
    /\ local_files = IF path_exists(cwd_file) THEN {current_dir[1]} ELSE {}
    /\ init_result = None
    /\ dir = <<>>
    /\ local_config_dir = None
    /\ user_file = AbsentFile
    /\ local_file = AbsentFile
    /\ loaded = None
    /\ args = <<>>
    /\ executed = <<>>
    /\ MergeIdle
    /\ ResolveIdle
    /\ ParseIdle

\* if std::path::Path::new(config_path).exists() { bail!(..) }
CheckExists ==
    /\ pc = "start"
    /\ IF path_exists(cwd_file)
       THEN /\ init_result' = Some(Err(<<"file already exists in current directory",
                                         <<LOCAL_CONFIG_FILE_NAME>>>>))
            /\ pc' = "returned"
       ELSE /\ init_result' = init_result
            /\ pc' = "write"
    /\ UNCHANGED <<current_dir, local_files, dir, local_config_dir, user_file,
                   local_file, loaded, args, executed, cwd_file,
                   mergeVars, resolveVars, parseVars>>

\* fs::write(config_path, template_content).context(..)?; Ok(())
WriteTemplate ==
    /\ pc = "write"
    /\ \E outcome \in WriteOutcomes :
           /\ cwd_file' = CASE outcome = "create_failed" -> cwd_file
                            [] outcome = "write_failed" -> EmptyFile
                            [] OTHER -> template_content
           /\ init_result' = IF outcome = "written"
                             THEN Some(Ok(None))
                             ELSE Some(Err(<<"Failed to write file",
                                             <<LOCAL_CONFIG_FILE_NAME>>>>))
    /\ local_files' = IF path_exists(cwd_file') THEN {current_dir[1]} ELSE {}
    /\ pc' = "returned"
    /\ UNCHANGED <<current_dir, dir, local_config_dir, user_file, local_file, loaded,
                   args, executed, mergeVars, resolveVars, parseVars>>

NextInitialize == CheckExists \/ WriteTemplate

SpecInitialize == InitInitialize /\ [][NextInitialize]_vars

-----------------------------------------------------------------------------
(* Claims about initialize_config, checked under SpecInitialize *)

\* the current directory has a file named .shwrap.yaml: one that cannot be read,
\* one that is not a configuration or one that holds a configuration
HasLocalConfigFile == cwd_file.state \in {"unreadable", "malformed", "valid"}

\* C30: a step of initialize_config taken when the local config file exists
\* leaves the file as it is, and the first such step returns an error; a
\* successful return has written the template, to a path where no file was
C30_NeverOverwrites ==
    /\ [][HasLocalConfigFile =>
              /\ cwd_file' = cwd_file
              /\ pc = "start" => pc' = "returned" /\ ~init_result'[1].ok]_vars
    /\ [][cwd_file' # cwd_file => pc = "write" /\ ~HasLocalConfigFile]_vars
    /\ [](pc = "returned" /\ init_result[1].ok => cwd_file = template_content)

\* C30 witness: the directory has a local config file with a node command, and
\* initialize_config has returned an error with the file as it was
C30_Witness ==
    /\ pc = "returned"
    /\ cwd_file.state = "valid"
    /\ "node" \in DOMAIN cwd_file.content
    /\ cwd_file # template_content
    /\ ~init_result[1].ok
    /\ init_result[1].error[1] = "file already exists in current directory"

====
